---- MODULE Spec2Model ----
(***************************************************************************)
(* A model of the job concurrency and progress-reporting subsystem of the  *)
(* converter server: the ConcurrencyLimiter (async_utils.py), the          *)
(* subprocess runner safe_subprocess (async_utils.py), the streaming       *)
(* runner VideoConverter._run_with_progress (converters/video.py) and the  *)
(* ProgressReporter (progress.py).                                         *)
(*                                                                         *)
(* Each component has its own specification over the shared variables:     *)
(*   SpecLimiter   tasks entering `async with concurrency_limiter`         *)
(*   SpecRunner    one call of safe_subprocess                             *)
(*   SpecStream    one call of _run_with_progress                          *)
(*   SpecReporter  calls of the ProgressReporter                           *)
(* A specification leaves the variables of the other components at their   *)
(* initial values.                                                         *)
(***************************************************************************)
EXTENDS Integers, Sequences, FiniteSets, TLC

VARIABLES
    \* ---- ConcurrencyLimiter: the semaphore of the running event loop ----
    semValue,     \* asyncio.Semaphore._value
    semWaiters,   \* asyncio.Semaphore._waiters: the tasks whose future is queued
    fut,          \* per task: the state of its waiter future
    lpc,          \* per task: its position in `async with concurrency_limiter`
    lexit,        \* per task: how it left the guarded section
    \* ---- the conversions that pass through the limiter ----
    category,     \* per task: the kind of conversion it runs ("none" outside)
    work,         \* per task: the state of the external tool or library call
                  \* of its conversion ("none", "running", "done")
    orphans,      \* the tool and library calls still running although their
                  \* conversion has left the guarded section
    \* ---- ConversionQueue ----
    qjobs,        \* ConversionQueue._jobs: job id -> ConversionJob
    qfifo,        \* ConversionQueue._queue: the jobs put, in order
    lastQ,        \* the last queue call: its argument, what it returned and
                  \* the status of the job before and after it
    wpc,          \* the position of the wait_for_job call under study
    wjob,         \* its job_id argument
    wtimeout,     \* its timeout argument
    welapsed,     \* the time it has slept, in polling intervals of 0.1 s
    \* ---- one conversion request: convert_file or a converter's convert ----
    creq,         \* the request under study
    cpos,         \* where it is: "idle", "tool" (the external tool runs),
                  \* "library" (Pillow runs in the executor), "done"
    cresult,      \* what reached the caller of the request
    cbCalls,      \* the values the progress callback was invoked with
    spawns,       \* the processes spawned for the request
    entered,      \* the calls of a converter made for the request
    \* ---- the external process of the call under study ----
    proc,         \* "none", "running", "zombie" (exited, status not collected),
                  \* "reaped" (returncode set), "closed" (transport closed)
    exitCode,     \* the status the process ended with ("none" while it runs)
    stderrText,   \* what the process wrote to stderr
    signals,      \* the signals sent to the process, in order
    \* ---- the call of safe_subprocess / _run_with_progress under study ----
    args,         \* the arguments of the call
    sp,           \* position of safe_subprocess
    rp,           \* position of _run_with_progress
    elapsed,      \* seconds waited in the wait with the call's timeout
    grace,        \* seconds waited for reaping after the kill
    pending,      \* the exception in flight while the finally block waits
    outcome,      \* what the call gave its caller
    logged,       \* the warnings logged
    cancels,      \* how often the calling task was cancelled
    timedOut,     \* the state of the process when the timeout fired ("no" before)
    cancelledAt,  \* the state of the process at the first cancellation
    forwarded,    \* the percentages _run_with_progress passed on
    \* ---- ProgressReporter ----
    now,          \* time.monotonic(), in seconds
    activeJobs,   \* ProgressReporter._active_jobs: job id -> ProgressInfo
    sinks,        \* the sinks the reporter was built with (callback, context)
    terminals,    \* per job id: the notifications with a terminal stage that
                  \* went out to the sinks since its last start_job (capped)
    completed,    \* the job ids whose last start_job was ended by complete_job
    raising,      \* the sinks whose every invocation raises an Exception
    callers,      \* the job ids the observed callers of the reporter use
    lastCall,     \* the last observed reporter call: what it gave its caller
                  \* and which sinks it invoked
    \* ---- the tasks that call one reporter, and its table lock ----
    lockLocked,   \* asyncio.Lock._locked of ProgressReporter._lock
    lockWaiters,  \* asyncio.Lock._waiters: the tasks whose future is queued
    wfut,         \* per task: the state of its future in the lock's queue
    cpc,          \* per task: its position in the reporter call it makes
    ccall,        \* per task: the call it makes
    received,     \* the number of calls the reporter has received
    lastReceived, \* per job id: the progress written by the call received
                  \* last for it (start_job writes 0)
    \* ---- the router, the file manager, a ProgressTracker, the shutdown flag ----
    routed,       \* the last call of get_converter_type: arguments and result
    files,        \* per directory: the suffixes n for which stem_n.fmt exists
                  \* (0 stands for stem.fmt)
    resolved,     \* the last call of resolve_output_path and what it gave
    tpc,          \* the position of the task that uses a ProgressTracker
    texc,         \* whether the body of its async with block raised
    shutdown      \* GracefulShutdown._shutdown

limVars == <<semValue, semWaiters, fut, lpc, lexit>>
convVars == <<category, work, orphans>>
queueVars == <<qjobs, qfifo, lastQ, wpc, wjob, wtimeout, welapsed>>
reqVars == <<creq, cpos, cresult, cbCalls, spawns, entered>>
sideVars == <<routed, files, resolved, tpc, texc, shutdown>>
procVars == <<proc, exitCode, stderrText, signals>>
callVars == <<args, sp, rp, elapsed, grace, pending, outcome, logged, cancels,
              timedOut, cancelledAt, forwarded>>

repConfig == <<sinks, raising, callers>>
lockVars == <<lockLocked, lockWaiters, wfut, cpc, ccall, received, lastReceived>>
repVars == <<now, activeJobs, terminals, completed, repConfig, lastCall, lockVars>>

vars == <<limVars, convVars, queueVars, sideVars, reqVars, procVars, callVars, repVars>>

\* what an action of one component leaves alone
notLimVars == <<convVars, queueVars, sideVars, reqVars, procVars, callVars, repVars>>
notRunVars == <<limVars, convVars, queueVars, sideVars, reqVars, repVars>>
notRepVars == <<limVars, convVars, queueVars, sideVars, reqVars, procVars, callVars,
                lockVars>>
notTaskVars == <<limVars, convVars, queueVars, sideVars, reqVars, procVars, callVars,
                 now, repConfig, lastCall>>

(***************************************************************************)
(* Bounds of the model.                                                    *)
(***************************************************************************)
NumTasks == 3
\* the capacity K handed to ConcurrencyLimiter(max_concurrent)
Capacity == 2

Tasks == 1..NumTasks

(***************************************************************************)
(* ConcurrencyLimiter.  All tasks run on one event loop, so _get_semaphore *)
(* yields one asyncio.Semaphore(max_concurrent) for all of them.           *)
(***************************************************************************)

\* ConcurrencyLimiter.__init__ / _get_semaphore: the first call on a loop
\* creates asyncio.Semaphore(self._max_concurrent); later calls return it.
_get_semaphore == [value |-> Capacity, waiters |-> <<>>]

\* Semaphore.locked(): value is 0, or a waiter that is not cancelled queues.
locked == \/ semValue = 0
          \/ \E i \in 1..Len(semWaiters) : fut[semWaiters[i]] # "cancelled"

wake_up_last(v, f) ==
    LET pend == {i \in 1..Len(semWaiters) : f[semWaiters[i]] = "pending"}
    IN  IF pend = {}
        THEN [value |-> v, fut |-> f]
        ELSE LET i == CHOOSE k \in pend : \A m \in pend : k >= m
             IN  [value |-> v - 1, fut |-> [f EXCEPT ![semWaiters[i]] = "done"]]

\* Semaphore._wake_up_next applied to (value, futures): the first waiter whose
\* future is not done takes one permit and has its future's result set.
wake_up_next(v, f) ==
    LET pend == {i \in 1..Len(semWaiters) : f[semWaiters[i]] = "pending"}
    IN  IF pend = {}
        THEN [value |-> v, fut |-> f]
        ELSE LET i == CHOOSE k \in pend : \A m \in pend : k <= m
             IN  [value |-> v - 1, fut |-> [f EXCEPT ![semWaiters[i]] = "done"]]

RemoveWaiter(t) == SelectSeq(semWaiters, LAMBDA u : u # t)

\* ConcurrencyLimiter.release: sem.release(), i.e. value += 1; _wake_up_next().
release ==
    LET r == wake_up_next(semValue + 1, fut)
    IN  /\ semValue' = r.value
        /\ fut' = r.fut

acquire_unguarded(t) ==
    /\ semValue' = semValue - 1
    /\ lpc' = [lpc EXCEPT ![t] = "inside"]
    /\ UNCHANGED <<semWaiters, fut>>

\* ConcurrencyLimiter.acquire, first half: sem.acquire() takes a permit at once
\* when the semaphore is not locked, and queues a future otherwise.
acquire(t) ==
    IF ~locked
    THEN /\ semValue' = semValue - 1
         /\ lpc' = [lpc EXCEPT ![t] = "inside"]
         /\ UNCHANGED <<semWaiters, fut>>
    ELSE /\ semWaiters' = Append(semWaiters, t)
         /\ fut' = [fut EXCEPT ![t] = "pending"]
         /\ lpc' = [lpc EXCEPT ![t] = "waiting"]
         /\ UNCHANGED semValue

\* ConcurrencyLimiter.__aenter__: await self.acquire().
__aenter__(t) ==
    /\ lpc[t] = "idle"
    /\ acquire(t)
    /\ UNCHANGED lexit
    /\ UNCHANGED notLimVars

\* sem.acquire(), second half: the task resumes at `await fut`.  The future is
\* removed from the queue; a task resumed by cancellation gives back the permit
\* a release had already handed to it and leaves without entering.
AcquireResume(t) ==
    /\ lpc[t] = "waiting"
    /\ fut[t] \in {"done", "cancelled", "doneCancel"}
    /\ semWaiters' = RemoveWaiter(t)
    /\ UNCHANGED notLimVars
    /\ CASE fut[t] = "done" ->
              LET r == IF semValue > 0
                       THEN wake_up_next(semValue, [fut EXCEPT ![t] = "none"])
                       ELSE [value |-> semValue, fut |-> [fut EXCEPT ![t] = "none"]]
              IN  /\ semValue' = r.value
                  /\ fut' = r.fut
                  /\ lpc' = [lpc EXCEPT ![t] = "inside"]
                  /\ UNCHANGED lexit
         [] fut[t] = "doneCancel" ->
              LET r == wake_up_next(semValue + 1, [fut EXCEPT ![t] = "none"])
              IN  /\ semValue' = r.value
                  /\ fut' = r.fut
                  /\ lpc' = [lpc EXCEPT ![t] = "out"]
                  /\ lexit' = [lexit EXCEPT ![t] = "cancelledInAcquire"]
         [] fut[t] = "cancelled" ->
              /\ fut' = [fut EXCEPT ![t] = "none"]
              /\ lpc' = [lpc EXCEPT ![t] = "out"]
              /\ lexit' = [lexit EXCEPT ![t] = "cancelledInAcquire"]
              /\ UNCHANGED semValue

\* task.cancel() on a task suspended in sem.acquire(): a pending future is
\* cancelled; a future whose result is already set stays done and the task is
\* resumed with CancelledError.
CancelWaiting(t) ==
    /\ lpc[t] = "waiting"
    /\ fut[t] \in {"pending", "done"}
    /\ fut' = [fut EXCEPT ![t] = IF fut[t] = "pending" THEN "cancelled" ELSE "doneCancel"]
    /\ UNCHANGED <<semValue, semWaiters, lpc, lexit>>
    /\ UNCHANGED notLimVars

\* ConcurrencyLimiter.__aexit__: self.release(), whatever the exception.
aexit_success_only(t, how) ==
    /\ lpc[t] = "inside"
    /\ IF how = "success" THEN release ELSE UNCHANGED <<semValue, fut>>
    /\ lpc' = [lpc EXCEPT ![t] = "out"]
    /\ lexit' = [lexit EXCEPT ![t] = how]
    /\ UNCHANGED semWaiters
    /\ UNCHANGED notLimVars

__aexit__(t, how) ==
    /\ lpc[t] = "inside"
    /\ release
    /\ lpc' = [lpc EXCEPT ![t] = "out"]
    /\ lexit' = [lexit EXCEPT ![t] = how]
    /\ UNCHANGED semWaiters
    /\ UNCHANGED notLimVars

\* The ways the guarded conversion ends (VideoConverter.convert, lines 125-156):
\* it returns, it raises (ConversionError, SubprocessError, ...), or the task is
\* cancelled inside it.
ExitKinds == {"success", "exception", "cancelled"}

ExitSection(t) == \E how \in ExitKinds : __aexit__(t, how)

\* A task that left may run the next conversion.
NextConversion(t) ==
    /\ lpc[t] = "out"
    /\ lpc' = [lpc EXCEPT ![t] = "idle"]
    /\ lexit' = [lexit EXCEPT ![t] = "none"]
    /\ UNCHANGED <<semValue, semWaiters, fut>>
    /\ UNCHANGED notLimVars

LimiterIdle ==
    /\ semValue = _get_semaphore.value
    /\ semWaiters = _get_semaphore.waiters
    /\ fut = [t \in Tasks |-> "none"]
    /\ lpc = [t \in Tasks |-> "idle"]
    /\ lexit = [t \in Tasks |-> "none"]

NextLimiter ==
    \E t \in Tasks :
        \/ __aenter__(t)
        \/ AcquireResume(t)
        \/ CancelWaiting(t)
        \/ ExitSection(t)
        \/ NextConversion(t)

\* The tasks inside the guarded section, and those a release has handed a
\* permit to while they are still suspended in acquire.
Inside == {t \in Tasks : lpc[t] = "inside"}
Handed == {t \in Tasks : lpc[t] = "waiting" /\ fut[t] \in {"done", "doneCancel"}}

\* C1: with capacity K and N > K tasks entering `async with limiter` on one
\* event loop, at most K tasks are inside the guarded section in every
\* reachable state.
C1_AtMostKInside ==
    /\ NumTasks > Capacity
    /\ Cardinality(Inside) <= Capacity

\* C1 witness: K tasks are inside while another task waits for a slot.
C1_Witness ==
    /\ Cardinality(Inside) = Capacity
    /\ \E t \in Tasks : lpc[t] = "waiting" /\ fut[t] = "pending"

\* C2: a slot taken through the scoped wrapper is given back on every exit
\* path (success, exception, cancellation): every permit missing from the
\* semaphore is held by a task inside the section or already handed to a
\* waiter, so when no conversion holds a slot the free permits equal K again.
C2_SlotReleased ==
    /\ semValue + Cardinality(Inside) + Cardinality(Handed) = Capacity
    /\ (Inside = {} /\ Handed = {}) => semValue = Capacity

\* C2 witness: conversions have left by an exception and by cancellation, another
\* task was cancelled while it held a handed permit, nobody holds a slot, and
\* all K permits are free.
C2_Witness ==
    /\ \E t \in Tasks : lexit[t] = "exception"
    /\ \E t \in Tasks : lexit[t] = "cancelled"
    /\ Inside = {} /\ Handed = {}
    /\ semValue = Capacity

(***************************************************************************)
(* The limiter used by hand.  acquire and release are public: a caller may *)
(* call release() for a slot it has already given back.  release takes no  *)
(* slot argument and the semaphore is a plain asyncio.Semaphore, so every  *)
(* call adds a permit.                                                     *)
(***************************************************************************)
MaxExtra == 2

\* limiter.release() by a task that has left the section, i.e. for a slot
\* that was released before.
ReleaseAgain(t) ==
    /\ lpc[t] = "out"
    /\ semValue < Capacity + MaxExtra
    /\ release
    /\ lexit' = [lexit EXCEPT ![t] = "releasedAgain"]
    /\ UNCHANGED <<semWaiters, lpc>>
    /\ UNCHANGED notLimVars

NextManual ==
    \E t \in Tasks :
        \/ __aenter__(t)
        \/ AcquireResume(t)
        \/ CancelWaiting(t)
        \/ ExitSection(t)
        \/ ReleaseAgain(t)
        \/ NextConversion(t)

\* C21: release is idempotent per slot: a release of a slot already released
\* has no further effect, so after any sequence of acquire and release calls
\* the free permits never exceed the capacity K.
C21_FreeAtMostK == semValue <= Capacity

(***************************************************************************)
(* The conversions.  Every converter wraps its external tool or library    *)
(* call in `async with concurrency_limiter`, the one module-level limiter: *)
(* ImageConverter.convert runs Pillow in the default executor, the others  *)
(* run ffmpeg or ebook-convert through safe_subprocess, and                *)
(* VideoConverter.convert through _run_with_progress when progress is      *)
(* wanted.                                                                 *)
(***************************************************************************)
MaxOrphans == 2

Categories == {"image", "video", "audio", "ebook", "extract_audio"}

notConvVars == <<queueVars, sideVars, reqVars, procVars, callVars, repVars>>

\* Whether the first cancellation of a conversion whose call is running is
\* absorbed inside the guarded section.  safe_subprocess awaits proc.wait() in
\* its finally block, so the task stays in the section while the process runs;
\* the awaited executor future of the image converter and _run_with_progress
\* (which catches Exception only) let CancelledError through at once.
\* VideoConverter.convert takes either way.
shielded(c) ==
    CASE c = "image" -> {FALSE}
      [] c = "video" -> {TRUE, FALSE}
      [] OTHER -> {TRUE}

\* The calls that are running: those of the conversions in the section, and
\* those left behind.
Working == {t \in Tasks : work[t] \in {"running", "waited"}}
RunningCalls == Cardinality(Working) + orphans

\* The end of `async with concurrency_limiter` in a converter: __aexit__
\* releases the slot; the call that is still running is left behind.
leave(t, how) ==
    /\ lpc[t] = "inside"
    /\ release
    /\ lpc' = [lpc EXCEPT ![t] = "out"]
    /\ lexit' = [lexit EXCEPT ![t] = how]
    /\ category' = [category EXCEPT ![t] = "none"]
    /\ work' = [work EXCEPT ![t] = "none"]
    /\ orphans' = IF t \in Working THEN orphans + 1 ELSE orphans
    /\ UNCHANGED semWaiters
    /\ UNCHANGED notConvVars

\* A converter's convert / extract_audio reaches `async with
\* concurrency_limiter`.
ConvertEnter(t) ==
    /\ lpc[t] = "idle"
    /\ \E c \in Categories : category' = [category EXCEPT ![t] = c]
    /\ acquire(t)
    /\ UNCHANGED <<lexit, work, orphans>>
    /\ UNCHANGED notConvVars

\* Inside the section: run_in_executor submits _convert_sync, or
\* create_subprocess_exec spawns ffmpeg / ebook-convert.
ToolStart(t) ==
    /\ lpc[t] = "inside"
    /\ work[t] = "none"
    /\ work' = [work EXCEPT ![t] = "running"]
    /\ UNCHANGED <<limVars, category, orphans>>
    /\ UNCHANGED notConvVars

\* The call ends: the library function returns or raises, the process exits
\* by itself or is killed when the timeout fires.
ToolEnd(t) ==
    /\ lpc[t] = "inside"
    /\ work[t] \in {"running", "waited"}
    /\ work' = [work EXCEPT ![t] = IF work[t] = "running" THEN "done"
                                   ELSE "doneCancelled"]
    /\ UNCHANGED <<limVars, category, orphans>>
    /\ UNCHANGED notConvVars

\* The conversion returns or raises (ConversionError after a non-zero status
\* or a timeout, or the error of a spawn that failed), or the CancelledError
\* held back by safe_subprocess's finally block goes on.
ConvertExit(t) ==
    \/ /\ work[t] = "done"
       /\ \E how \in {"success", "exception"} : leave(t, how)
    \/ /\ work[t] = "none"
       /\ leave(t, "exception")
    \/ /\ work[t] = "doneCancelled"
       /\ leave(t, "cancelled")

\* task.cancel() on the task of a conversion inside the section.
ConvertCancel(t) ==
    /\ lpc[t] = "inside"
    /\ work[t] # "doneCancelled"
    /\ orphans < MaxOrphans
    /\ \/ /\ work[t] \in {"none", "done", "waited"}
          /\ leave(t, "cancelled")
       \/ /\ work[t] = "running"
          /\ \E sh \in shielded(category[t]) :
                IF sh
                THEN /\ work' = [work EXCEPT ![t] = "waited"]
                     /\ UNCHANGED <<limVars, category, orphans>>
                     /\ UNCHANGED notConvVars
                ELSE leave(t, "cancelled")

\* A call left behind ends.
OrphanEnd ==
    /\ orphans > 0
    /\ orphans' = orphans - 1
    /\ UNCHANGED <<limVars, category, work>>
    /\ UNCHANGED notConvVars

ConversionsIdle ==
    /\ category = [t \in Tasks |-> "none"]
    /\ work = [t \in Tasks |-> "none"]
    /\ orphans = 0

NextConversions ==
    \/ \E t \in Tasks :
        \/ ConvertEnter(t)
        \/ AcquireResume(t)
        \/ CancelWaiting(t)
        \/ ToolStart(t)
        \/ ToolEnd(t)
        \/ ConvertExit(t)
        \/ ConvertCancel(t)
        \/ NextConversion(t)
    \/ OrphanEnd

\* C20: the conversions of all five kinds hold a slot of the one limiter
\* while their external tool or library call runs, so that the tool and
\* library calls running at the same time, of all kinds together, never
\* number more than the limit K.
C20_JointLimit ==
    /\ \A t \in Working : lpc[t] = "inside"
    /\ RunningCalls <= Capacity

(***************************************************************************)
(* The external process.  The operating system ends it (by itself, or      *)
(* after SIGKILL), the event loop's child watcher collects its status and  *)
(* sets proc.returncode, and the transport closes once the pipes are at    *)
(* end of file.  Process.wait() and communicate() complete once the status *)
(* is collected.                                                           *)
(***************************************************************************)
MaxTimeout == 2
MaxCancels == 2
\* async_utils.py line 130: wait_for(proc.wait(), timeout=5.0)
GraceWindow == 5

Commands == {"ffmpeg", "ebook-convert"}
NaturalCodes == {0, 1}
Collected == {"reaped", "closed"}

ProcExit ==
    /\ proc = "running"
    /\ proc' = "zombie"
    /\ \E c \in NaturalCodes, e \in {"", "err"} :
          /\ exitCode' = IF signals # <<>> THEN -9 ELSE c
          /\ stderrText' = e
    /\ UNCHANGED signals
    /\ UNCHANGED callVars
    /\ UNCHANGED notRunVars

ChildWatcher ==
    /\ proc = "zombie"
    /\ proc' = "reaped"
    /\ UNCHANGED <<exitCode, stderrText, signals>>
    /\ UNCHANGED callVars
    /\ UNCHANGED notRunVars

TransportClosed ==
    /\ proc = "reaped"
    /\ proc' = "closed"
    /\ UNCHANGED <<exitCode, stderrText, signals>>
    /\ UNCHANGED callVars
    /\ UNCHANGED notRunVars

(***************************************************************************)
(* safe_subprocess (async_utils.py, lines 81-144).                         *)
(***************************************************************************)
CallArgs == [cmd : Commands, timeout : 1..MaxTimeout,
             check_returncode : BOOLEAN, capture_output : BOOLEAN]
NoArgs == [cmd |-> "none", timeout |-> 0,
           check_returncode |-> TRUE, capture_output |-> TRUE]
NoOutcome == [kind |-> "none"]
CancelledError == [kind |-> "CancelledError"]

\* SubprocessTimeoutError(cmd, timeout), lines 59-65 and 133.
timeout_error_fixed(a) ==
    [kind |-> "SubprocessTimeoutError", cmd |-> a.cmd, timeout |-> GraceWindow]

SubprocessTimeoutError(a) ==
    [kind |-> "SubprocessTimeoutError", cmd |-> a.cmd, timeout |-> a.timeout]

\* lines 116-118 and 141-144: returncode = proc.returncode or 0, the captured
\* stderr, the SubprocessError raised when checking is on, the tuple otherwise.
result_always_checked(a, code, err) ==
    LET stderr_str == IF a.capture_output THEN err ELSE ""
    IN  IF code # 0
        THEN [kind |-> "SubprocessError", cmd |-> a.cmd, returncode |-> code,
              stderr |-> stderr_str]
        ELSE [kind |-> "returned", returncode |-> code, stderr |-> stderr_str]

result_of(a, code, err) ==
    LET stderr_str == IF a.capture_output THEN err ELSE ""
    IN  IF a.check_returncode /\ code # 0
        THEN [kind |-> "SubprocessError", cmd |-> a.cmd, returncode |-> code,
              stderr |-> stderr_str]
        ELSE [kind |-> "returned", returncode |-> code, stderr |-> stderr_str]

\* lines 125-128: proc.kill().  SIGKILL reaches a process that still runs; on a
\* closed transport ProcessLookupError is raised and passed over.
kill_graceful ==
    signals' = IF proc = "running" THEN Append(signals, "SIGTERM") ELSE signals

kill ==
    signals' = IF proc = "running" THEN Append(signals, "SIGKILL") ELSE signals

\* lines 134-139: the finally block, run with exception exc in flight: when
\* proc.returncode is None it awaits proc.wait() before exc goes on.
finally_no_wait(exc) ==
    /\ sp' = "done"
    /\ outcome' = exc
    /\ pending' = NoOutcome

finally_block(exc) ==
    IF proc \in Collected
    THEN /\ sp' = "done"
         /\ outcome' = exc
         /\ pending' = NoOutcome
    ELSE /\ sp' = "finalwait"
         /\ pending' = exc
         /\ UNCHANGED outcome

\* lines 104-111: the process is spawned.
RunnerCall ==
    /\ sp = "idle" /\ rp = "idle"
    /\ \E a \in CallArgs : args' = a
    /\ proc' = "running"
    /\ sp' = "wait"
    /\ UNCHANGED <<exitCode, stderrText, signals>>
    /\ UNCHANGED <<rp, elapsed, grace, pending, outcome, logged, cancels,
                   timedOut, cancelledAt, forwarded>>
    /\ UNCHANGED notRunVars

\* a second passes while wait_for(proc.communicate(), timeout) waits
RunnerTick ==
    /\ sp = "wait"
    /\ elapsed < args.timeout
    /\ elapsed' = elapsed + 1
    /\ UNCHANGED procVars
    /\ UNCHANGED <<args, sp, rp, grace, pending, outcome, logged, cancels,
                   timedOut, cancelledAt, forwarded>>
    /\ UNCHANGED notRunVars

\* lines 114-123 and 141-144: the process ended before the timeout.
RunnerWaitDone ==
    /\ sp = "wait"
    /\ proc \in Collected
    /\ sp' = "done"
    /\ outcome' = result_of(args, exitCode, stderrText)
    /\ UNCHANGED procVars
    /\ UNCHANGED <<args, rp, elapsed, grace, pending, logged, cancels,
                   timedOut, cancelledAt, forwarded>>
    /\ UNCHANGED notRunVars

\* lines 124-130: the timeout fires; the process is killed and the wait of at
\* most 5 seconds for its end begins.
RunnerTimeout ==
    /\ sp = "wait"
    /\ elapsed = args.timeout
    /\ timedOut' = proc
    /\ kill
    /\ sp' = "reapwait"
    /\ UNCHANGED <<proc, exitCode, stderrText>>
    /\ UNCHANGED <<args, rp, elapsed, grace, pending, outcome, logged, cancels,
                   cancelledAt, forwarded>>
    /\ UNCHANGED notRunVars

\* a second passes while wait_for(proc.wait(), timeout=5.0) waits
GraceTick ==
    /\ sp = "reapwait"
    /\ grace < GraceWindow
    /\ grace' = grace + 1
    /\ UNCHANGED procVars
    /\ UNCHANGED <<args, sp, rp, elapsed, pending, outcome, logged, cancels,
                   timedOut, cancelledAt, forwarded>>
    /\ UNCHANGED notRunVars

\* lines 130 and 133: the killed process ended within the 5 seconds.
RunnerReaped ==
    /\ sp = "reapwait"
    /\ proc \in Collected
    /\ finally_block(SubprocessTimeoutError(args))
    /\ UNCHANGED procVars
    /\ UNCHANGED <<args, rp, elapsed, grace, logged, cancels, timedOut,
                   cancelledAt, forwarded>>
    /\ UNCHANGED notRunVars

\* lines 131-139: the 5 seconds ran out: a warning is logged, the timeout error
\* is raised and the finally block waits for the process.
RunnerGraceExpired ==
    /\ sp = "reapwait"
    /\ grace = GraceWindow
    /\ logged' = logged \cup {"did not terminate after kill"}
    /\ finally_block(SubprocessTimeoutError(args))
    /\ UNCHANGED procVars
    /\ UNCHANGED <<args, rp, elapsed, grace, cancels, timedOut, cancelledAt,
                   forwarded>>
    /\ UNCHANGED notRunVars

\* lines 135-137: proc.wait() of the finally block completes.
RunnerFinalWaitDone ==
    /\ sp = "finalwait"
    /\ proc \in Collected
    /\ sp' = "done"
    /\ outcome' = pending
    /\ pending' = NoOutcome
    /\ UNCHANGED procVars
    /\ UNCHANGED <<args, rp, elapsed, grace, logged, cancels, timedOut,
                   cancelledAt, forwarded>>
    /\ UNCHANGED notRunVars

\* The calling task is cancelled while safe_subprocess is suspended.
\* CancelledError is no asyncio.TimeoutError and no Exception: from the waits of
\* the try block it goes through the finally block (lines 134-139), from the
\* wait of the finally block it leaves the call at once.
RunnerCancel ==
    /\ sp \in {"wait", "reapwait", "finalwait"}
    /\ cancels < MaxCancels
    /\ cancels' = cancels + 1
    /\ cancelledAt' = IF cancels = 0 THEN proc ELSE cancelledAt
    /\ IF sp = "finalwait"
       THEN /\ sp' = "done"
            /\ outcome' = CancelledError
            /\ pending' = NoOutcome
       ELSE finally_block(CancelledError)
    /\ UNCHANGED procVars
    /\ UNCHANGED <<args, rp, elapsed, grace, logged, timedOut, forwarded>>
    /\ UNCHANGED notRunVars

CallIdle ==
    /\ proc = "none"
    /\ exitCode = "none"
    /\ stderrText = ""
    /\ signals = <<>>
    /\ args = NoArgs
    /\ sp = "idle"
    /\ rp = "idle"
    /\ elapsed = 0
    /\ grace = 0
    /\ pending = NoOutcome
    /\ outcome = NoOutcome
    /\ logged = {}
    /\ cancels = 0
    /\ timedOut = "no"
    /\ cancelledAt = "no"
    /\ forwarded = <<>>

NextRunner ==
    \/ ProcExit
    \/ ChildWatcher
    \/ TransportClosed
    \/ RunnerCall
    \/ RunnerTick
    \/ RunnerWaitDone
    \/ RunnerTimeout
    \/ GraceTick
    \/ RunnerReaped
    \/ RunnerGraceExpired
    \/ RunnerFinalWaitDone
    \/ RunnerCancel


Range(q) == {q[i] : i \in 1..Len(q)}
GraceWarning == "did not terminate after kill"

\* C3: when the timeout fires, safe_subprocess fails with
\* SubprocessTimeoutError carrying the command and the timeout of the call
\* (also when the kill succeeded), it never returns a result tuple (nor fails
\* with SubprocessError), and when the timeout error reaches the caller the
\* process no longer runs.  A task cancelled after the timeout fired ends with
\* CancelledError instead, and still with no result.
C3_TimeoutRaises ==
    (sp = "done" /\ timedOut # "no") =>
        /\ outcome.kind \in {"SubprocessTimeoutError", "CancelledError"}
        /\ cancels = 0 =>
              outcome = [kind |-> "SubprocessTimeoutError", cmd |-> args.cmd,
                         timeout |-> args.timeout]
        /\ outcome.kind = "SubprocessTimeoutError" =>
              /\ outcome.cmd = args.cmd /\ outcome.timeout = args.timeout
              /\ proc \in Collected

\* C3 witness: the timeout fired on a running process, SIGKILL was sent, the
\* process was collected and the call ended with the timeout error.
C3_Witness ==
    /\ sp = "done" /\ timedOut = "running"
    /\ signals = <<"SIGKILL">>
    /\ proc \in Collected /\ exitCode = -9
    /\ outcome.kind = "SubprocessTimeoutError"

\* C4: on the exit paths exit code 0, non-zero exit and timeout, the call
\* neither returns nor raises before the status of the process is collected;
\* when the 5 second wait after the kill runs out, that is only logged and the
\* error raised is still the subprocess timeout error.
C4_ReapedBeforeExit ==
    /\ (sp = "done" /\ outcome.kind \in {"returned", "SubprocessError",
                                         "SubprocessTimeoutError"})
          => proc \in Collected
    /\ (sp = "done" /\ GraceWarning \in logged) =>
          /\ outcome.kind \in {"SubprocessTimeoutError", "CancelledError"}
          /\ cancels = 0 => outcome.kind = "SubprocessTimeoutError"

\* C4 witness: the 5 seconds ran out with the process still running, the
\* warning was logged, the finally block waited, and the timeout error was
\* raised once the process was collected.
C4_Witness ==
    /\ sp = "done" /\ grace = GraceWindow
    /\ GraceWarning \in logged /\ cancels = 0
    /\ outcome.kind = "SubprocessTimeoutError"
    /\ proc \in Collected

\* C5 (as claimed): when the task is cancelled while the external process
\* still runs, the runner kills the process as on a timeout and the call does
\* not exit before the process is collected.
C5_CancelKillsAndReaps ==
    (cancelledAt = "running" /\ timedOut = "no") =>
        /\ "SIGKILL" \in Range(signals)
        /\ sp = "done" => proc \in Collected

\* C6 (as claimed): every forceful kill is preceded by a graceful terminate and
\* by an expired 5 second grace window.
C6_GracefulBeforeKill ==
    \A i \in 1..Len(signals) :
        signals[i] = "SIGKILL" =>
            /\ \E j \in 1..(i - 1) : signals[j] = "SIGTERM"
            /\ grace = GraceWindow

\* C6 (amended): on timeout the runner sends the forceful kill at once and
\* never a graceful terminate; the 5 second window only bounds the wait for
\* the killed process that follows, and the warning is logged only when that
\* window has run out.
C6_KillAtOnce ==
    /\ "SIGTERM" \notin Range(signals)
    /\ Len(signals) <= 1
    /\ signals # <<>> => timedOut = "running"
    /\ timedOut = "running" => signals = <<"SIGKILL">>
    /\ grace > 0 => timedOut # "no"
    /\ GraceWarning \in logged => grace = GraceWindow

\* C6 witness: the timeout has just fired: SIGKILL is sent, no terminate was,
\* and no second of the 5 second window has passed.
C6_Witness ==
    /\ sp = "reapwait" /\ grace = 0
    /\ signals = <<"SIGKILL">>
    /\ proc = "running"

\* C8: with return-code checking on, a non-zero exit before the timeout makes
\* safe_subprocess fail with SubprocessError carrying the command, the exit
\* code and the captured stderr; with check_returncode=False the non-zero code
\* comes back in the result tuple; exit code 0 never gives SubprocessError.
C8_ReturnCodeCheck ==
    (sp = "done" /\ timedOut = "no" /\ cancels = 0) =>
        LET stderr_str == IF args.capture_output THEN stderrText ELSE ""
        IN  /\ (args.check_returncode /\ exitCode # 0) =>
                  outcome = [kind |-> "SubprocessError", cmd |-> args.cmd,
                             returncode |-> exitCode, stderr |-> stderr_str]
            /\ (~args.check_returncode) =>
                  outcome = [kind |-> "returned", returncode |-> exitCode,
                             stderr |-> stderr_str]
            /\ exitCode = 0 =>
                  outcome = [kind |-> "returned", returncode |-> 0,
                             stderr |-> stderr_str]

\* C8 witness: a call with check_returncode=False got the non-zero exit code back.
C8_Witness ==
    /\ sp = "done" /\ outcome.kind = "returned"
    /\ outcome.returncode = 1
    /\ ~args.check_returncode /\ args.capture_output

(***************************************************************************)
(* VideoConverter._run_with_progress (converters/video.py, lines 195-295). *)
(***************************************************************************)
StreamArgs == {a \in CallArgs : a.capture_output /\ ~a.check_returncode}
Percents == {0, 50, 100}
TimeoutError == [kind |-> "TimeoutError"]
ProcessLookupError == [kind |-> "ProcessLookupError"]

\* lines 283 and 288: process.kill() with no handler around it:
\* ProcessLookupError on a closed transport, else SIGKILL to a running process.
stream_kill_raises == proc = "closed"

\* lines 287-290: the handler `except Exception` of the outer try, entered with
\* exception exc: process.kill(), await process.wait() (the status is already
\* collected), raise.  A kill that raises replaces exc.
outer_handler(exc) == IF stream_kill_raises THEN ProcessLookupError ELSE exc

\* line 231: the process is spawned with both pipes.
StreamCall ==
    /\ sp = "idle" /\ rp = "idle"
    /\ \E a \in StreamArgs : args' = a
    /\ proc' = "running"
    /\ rp' = "wait"
    /\ UNCHANGED <<exitCode, stderrText, signals>>
    /\ UNCHANGED <<sp, elapsed, grace, pending, outcome, logged, cancels,
                   timedOut, cancelledAt, forwarded>>
    /\ UNCHANGED notRunVars

\* a second passes while wait_for(process.communicate(), timeout) waits
StreamTick ==
    /\ rp = "wait"
    /\ elapsed < args.timeout
    /\ elapsed' = elapsed + 1
    /\ UNCHANGED procVars
    /\ UNCHANGED <<args, sp, rp, grace, pending, outcome, logged, cancels,
                   timedOut, cancelledAt, forwarded>>
    /\ UNCHANGED notRunVars

\* lines 244-280 and 292-295: communicate() completed: the output is searched
\* for Duration: and time=, a percentage found is passed on (an exception of
\* the callback is logged), the loop ends since returncode is set, and the
\* tuple is returned with no check of the return code.
StreamDone ==
    /\ rp = "wait"
    /\ proc \in Collected
    /\ \E matched \in BOOLEAN, percent \in Percents :
          forwarded' = IF matched /\ stderrText # ""
                       THEN Append(forwarded, percent) ELSE forwarded
    /\ rp' = "done"
    /\ outcome' = [kind |-> "returned", returncode |-> exitCode,
                   stderr |-> stderrText]
    /\ UNCHANGED procVars
    /\ UNCHANGED <<args, sp, elapsed, grace, pending, logged, cancels,
                   timedOut, cancelledAt>>
    /\ UNCHANGED notRunVars

\* lines 282-285: the timeout fires: process.kill(); await process.wait().
\* When the kill raises, the outer handler (lines 287-290) runs at once.
StreamTimeout ==
    /\ rp = "wait"
    /\ elapsed = args.timeout
    /\ timedOut' = proc
    /\ IF stream_kill_raises
       THEN /\ rp' = "done"
            /\ outcome' = outer_handler(ProcessLookupError)
            /\ UNCHANGED signals
       ELSE /\ kill
            /\ rp' = "innerwait"
            /\ UNCHANGED outcome
    /\ UNCHANGED <<proc, exitCode, stderrText>>
    /\ UNCHANGED <<args, sp, elapsed, grace, pending, logged, cancels,
                   cancelledAt, forwarded>>
    /\ UNCHANGED notRunVars

\* lines 284-290: process.wait() completed; the TimeoutError is raised again
\* and passes through the outer handler.
StreamInnerWaitDone ==
    /\ rp = "innerwait"
    /\ proc \in Collected
    /\ rp' = "done"
    /\ outcome' = outer_handler(TimeoutError)
    /\ UNCHANGED procVars
    /\ UNCHANGED <<args, sp, elapsed, grace, pending, logged, cancels,
                   timedOut, cancelledAt, forwarded>>
    /\ UNCHANGED notRunVars

\* The calling task is cancelled while _run_with_progress is suspended:
\* CancelledError is caught by neither handler and leaves the call.
StreamCancel ==
    /\ rp \in {"wait", "innerwait"}
    /\ cancels < MaxCancels
    /\ cancels' = cancels + 1
    /\ cancelledAt' = IF cancels = 0 THEN proc ELSE cancelledAt
    /\ rp' = "done"
    /\ outcome' = CancelledError
    /\ UNCHANGED procVars
    /\ UNCHANGED <<args, sp, elapsed, grace, pending, logged, timedOut,
                   forwarded>>
    /\ UNCHANGED notRunVars

NextStream ==
    \/ ProcExit
    \/ ChildWatcher
    \/ TransportClosed
    \/ StreamCall
    \/ StreamTick
    \/ StreamDone
    \/ StreamTimeout
    \/ StreamInnerWaitDone
    \/ StreamCancel

\* C7 (as claimed): when the timeout fires in _run_with_progress while the
\* process runs, the process is killed and collected before the call exits,
\* and the call fails with the timeout error: no other error kind replaces it
\* and no tuple is returned.
C7_StreamTimeoutContract ==
    (rp = "done" /\ timedOut = "running" /\ cancels = 0) =>
        /\ outcome = TimeoutError
        /\ proc \in Collected

(***************************************************************************)
(* ProgressReporter (progress.py).  Every operation runs with the table    *)
(* lock held from its first to its last statement, so one call is one      *)
(* step.                                                                   *)
(***************************************************************************)
MaxTime == 1
NoteCap == 2
\* progress.py line 87
MIN_PROGRESS_THRESHOLD == 1
\* progress.py line 128: total=100.0
DefaultTotal == 100

JobIds == {"job-1", "job-2"}
\* ProgressStage, lines 20-27
ProgressStage == {"init", "processing", "finalizing", "complete", "error"}
ProgressValues == {0, 50}
Messages == {"Halfway"}
MetaVals == {"x"}
\* a metadata dict over the one key "source"; "unset": the key is missing.
\* None and {} are both the dict with the key unset.
MetaDicts == [source : MetaVals \cup {"unset"}]
NoMeta == [source |-> "unset"]
SinkConfigs == SUBSET {"callback", "context"}
\* the jobs whose calls carry a message and metadata; the calls for the other
\* jobs leave both arguments out
PayloadJobs == {"job-1"}
MessageArgs(j, default) == IF j \in PayloadJobs THEN Messages \cup {default} ELSE {default}
MetaArgs(j) == IF j \in PayloadJobs THEN MetaDicts ELSE {NoMeta}

\* dict.update
dict_update(old, new) ==
    [k \in DOMAIN old |-> IF new[k] # "unset" THEN new[k] ELSE old[k]]

\* ProgressInfo.is_complete, lines 54-57
is_complete(info) == info.stage \in {"complete", "error"}

\* ProgressInfo.elapsed_seconds, lines 42-45
elapsed_seconds(info) == now - info.start_time

\* ProgressInfo.percent_complete, lines 47-52
Min(a, b) == IF a <= b THEN a ELSE b
percent_complete(info) ==
    IF info.total = 0 THEN 0 ELSE Min(100, (info.progress * 100) \div info.total)

\* ProgressReporter._notify, lines 254-282: the sinks called for info.  A call
\* too early after the start of a job that is not complete returns at once;
\* else the callback and then the context are called, each inside its own
\* try/except Exception.
\* one sink called inside `try: ... except Exception` (lines 265-271 and
\* 274-282): a sink that is not configured is skipped, and an exception of the
\* sink is logged and goes no further.
sink_unguarded(sink) ==
    [invoked |-> sinks \cap {sink}, escaped |-> sink \in sinks \cap raising]

try_sink(sink) ==
    [invoked |-> sinks \cap {sink}, escaped |-> FALSE]

never_throttled(info) == FALSE

throttled(info) ==
    elapsed_seconds(info) < MIN_PROGRESS_THRESHOLD /\ ~is_complete(info)

\* the sinks invoked by _notify(info), and whether an exception left it
notify_result(info) ==
    IF throttled(info)
    THEN [invoked |-> {}, escaped |-> FALSE]
    ELSE LET cb == try_sink("callback")
             cx == try_sink("context")
         IN  IF cb.escaped THEN cb
             ELSE [invoked |-> cb.invoked \cup cx.invoked, escaped |-> cx.escaped]

_notify(info) == notify_result(info).invoked

Put_everywhere(table, job_id, info) ==
    [k \in DOMAIN table \cup {job_id} |-> info]

\* the table with job_id set to info: self._active_jobs[job_id] = info
Put(table, job_id, info) ==
    [k \in DOMAIN table \cup {job_id} |-> IF k = job_id THEN info ELSE table[k]]

Del_nothing(table, job_id) == table

\* del self._active_jobs[job_id]
Del(table, job_id) == [k \in DOMAIN table \ {job_id} |-> table[k]]

\* the count of the terminal notifications of a job after one _notify(info)
Notified(job_id, info, base) ==
    terminals' = [terminals EXCEPT ![job_id] =
                     IF is_complete(info) /\ _notify(info) # {}
                     THEN Min(NoteCap, base + 1) ELSE base]

NotFound == UNCHANGED <<activeJobs, terminals, completed>>

\* lines 124-131: the record start_job builds
start_info(message, metadata) ==
    [stage |-> "init", progress |-> 0, total |-> DefaultTotal,
     message |-> message, start_time |-> now, metadata |-> metadata]

\* lines 163-169: the record after the assignments of update_progress
update_info(old, progress, stage, message, metadata) ==
    [old EXCEPT !.progress = progress,
                !.stage = IF stage # "None" THEN stage ELSE @,
                !.message = IF message # "None" THEN message ELSE @,
                !.metadata = dict_update(@, metadata)]

complete_info_keeps_progress(old, success, message, metadata) ==
    [old EXCEPT !.stage = IF success THEN "complete" ELSE "error"]

\* lines 199-208: the record after the assignments of complete_job
complete_info(old, success, message, metadata) ==
    [old EXCEPT !.stage = IF success THEN "complete" ELSE "error",
                !.progress = old.total,
                !.message = IF message # "None" THEN message
                            ELSE IF success THEN "Conversion complete"
                            ELSE "Conversion failed",
                !.metadata = dict_update(@, metadata)]

stage_info_resets_progress(old, stage, message) ==
    [old EXCEPT !.stage = stage, !.progress = 0,
                !.message = IF message # "None" THEN message ELSE @]

\* lines 239-241: the record after the assignments of set_stage
stage_info(old, stage, message) ==
    [old EXCEPT !.stage = stage,
                !.message = IF message # "None" THEN message ELSE @]

start_job_keeps_active(job_id, message, metadata) ==
    LET info == IF job_id \in DOMAIN activeJobs THEN activeJobs[job_id]
                ELSE start_info(message, metadata)
    IN  /\ activeJobs' = Put(activeJobs, job_id, info)
        /\ Notified(job_id, info, 0)
        /\ completed' = completed \ {job_id}

\* ProgressReporter.start_job, lines 106-134
start_job(job_id, message, metadata) ==
    LET info == start_info(message, metadata)
    IN  /\ activeJobs' = Put(activeJobs, job_id, info)
        /\ Notified(job_id, info, 0)
        /\ completed' = completed \ {job_id}

update_progress_upsert(job_id, progress, stage, message, metadata) ==
    LET old == IF job_id \in DOMAIN activeJobs THEN activeJobs[job_id]
               ELSE start_info("", NoMeta)
        info == update_info(old, progress, stage, message, metadata)
    IN  /\ activeJobs' = Put(activeJobs, job_id, info)
        /\ Notified(job_id, info, terminals[job_id])
        /\ UNCHANGED completed

\* ProgressReporter.update_progress, lines 136-172
update_progress(job_id, progress, stage, message, metadata) ==
    IF job_id \notin DOMAIN activeJobs
    THEN NotFound
    ELSE LET info == update_info(activeJobs[job_id], progress, stage, message,
                                 metadata)
         IN  /\ activeJobs' = Put(activeJobs, job_id, info)
             /\ Notified(job_id, info, terminals[job_id])
             /\ UNCHANGED completed

\* ProgressReporter.complete_job, lines 174-215: the record is removed after
\* _notify returned; an exception leaving _notify would leave the call before
\* the del of line 214.
complete_job(job_id, success, message, metadata) ==
    IF job_id \notin DOMAIN activeJobs
    THEN NotFound
    ELSE LET info == complete_info(activeJobs[job_id], success, message, metadata)
         IN  /\ Notified(job_id, info, terminals[job_id])
             /\ IF notify_result(info).escaped
                THEN /\ activeJobs' = Put(activeJobs, job_id, info)
                     /\ UNCHANGED completed
                ELSE /\ activeJobs' = Del(activeJobs, job_id)
                     /\ completed' = completed \cup {job_id}

\* ProgressReporter.set_stage, lines 217-244
set_stage(job_id, stage, message) ==
    IF job_id \notin DOMAIN activeJobs
    THEN NotFound
    ELSE LET info == stage_info(activeJobs[job_id], stage, message)
         IN  /\ activeJobs' = Put(activeJobs, job_id, info)
             /\ Notified(job_id, info, terminals[job_id])
             /\ UNCHANGED completed

StartJob ==
    /\ \E j \in JobIds : \E m \in MessageArgs(j, "Starting conversion"),
          md \in MetaArgs(j) :
          start_job(j, m, md)
    /\ UNCHANGED <<now, repConfig, lastCall>>
    /\ UNCHANGED notRepVars

UpdateProgress ==
    /\ \E j \in JobIds, p \in ProgressValues, st \in ProgressStage \cup {"None"} :
       \E m \in MessageArgs(j, "None"), md \in MetaArgs(j) :
          update_progress(j, p, st, m, md)
    /\ UNCHANGED <<now, repConfig, lastCall>>
    /\ UNCHANGED notRepVars

CompleteJob ==
    /\ \E j \in JobIds, ok \in BOOLEAN : \E m \in MessageArgs(j, "None"),
          md \in MetaArgs(j) :
          complete_job(j, ok, m, md)
    /\ UNCHANGED <<now, repConfig, lastCall>>
    /\ UNCHANGED notRepVars

SetStage ==
    /\ \E j \in JobIds, st \in ProgressStage : \E m \in MessageArgs(j, "None") :
          set_stage(j, st, m)
    /\ UNCHANGED <<now, repConfig, lastCall>>
    /\ UNCHANGED notRepVars

\* a second passes
ClockTick ==
    /\ now < MaxTime
    /\ now' = now + 1
    /\ UNCHANGED <<activeJobs, terminals, completed, repConfig, lastCall>>
    /\ UNCHANGED notRepVars

\* what a reporter call gives its caller when it is no record
None == [kind |-> "None"]
Raised == [kind |-> "raised"]
\* no progress argument (start_job, set_stage, complete_job take none)
NoProgress == -1
NoCall == [op |-> "none", job |-> "none", progress |-> NoProgress, at |-> 0,
           found |-> FALSE, ret |-> None, sent |-> {}]

\* ProgressReporter.__init__, lines 89-104
ReporterIdle ==
    /\ now = 0
    /\ activeJobs = <<>>
    /\ terminals = [j \in JobIds |-> 0]
    /\ completed = {}
    /\ lastCall = NoCall

NextReporter ==
    \/ StartJob
    \/ UpdateProgress
    \/ CompleteJob
    \/ SetStage
    \/ ClockTick

\* C9 (as claimed): no record in the active-job table has stage complete or
\* error.
C9_NoTerminalStageInTable ==
    \A j \in DOMAIN activeJobs : ~is_complete(activeJobs[j])

\* C10 (as claimed): for every job started and later completed, each sink of
\* the reporter has seen exactly one notification with a terminal stage for it.
C10_OneTerminalNotification ==
    \A j \in completed : sinks # {} => terminals[j] = 1

(***************************************************************************)
(* The reporter calls again, each one observed: lastCall holds what the    *)
(* call returned (the record, None, or an exception that left it) and the  *)
(* sinks it invoked.  found: the id was in the table when the call began;  *)
(* at: the time of the call; progress: the progress argument.              *)
(***************************************************************************)
Observed(op, job_id, progress, info) ==
    [op |-> op, job |-> job_id, progress |-> progress, at |-> now,
     found |-> job_id \in DOMAIN activeJobs,
     ret |-> IF info = None THEN None
             ELSE IF notify_result(info).escaped THEN Raised ELSE info,
     sent |-> IF info = None THEN {} ELSE _notify(info)]

\* the record a call on job_id works on, None for an unknown id (lines 158,
\* 194, 235: self._active_jobs.get(job_id))
Lookup(job_id, f(_)) ==
    IF job_id \in DOMAIN activeJobs THEN f(activeJobs[job_id]) ELSE None

StartJobCall ==
    /\ \E j \in callers : \E m \in MessageArgs(j, "Starting conversion"),
          md \in MetaArgs(j) :
          /\ start_job(j, m, md)
          /\ lastCall' = Observed("start_job", j, NoProgress, start_info(m, md))
    /\ UNCHANGED <<now, repConfig>>
    /\ UNCHANGED notRepVars

UpdateProgressCall ==
    /\ \E j \in callers, p \in ProgressValues, st \in ProgressStage \cup {"None"} :
       \E m \in MessageArgs(j, "None"), md \in MetaArgs(j) :
          /\ update_progress(j, p, st, m, md)
          /\ lastCall' = Observed("update_progress", j, p,
                 Lookup(j, LAMBDA old : update_info(old, p, st, m, md)))
    /\ UNCHANGED <<now, repConfig>>
    /\ UNCHANGED notRepVars

CompleteJobCall ==
    /\ \E j \in callers, ok \in BOOLEAN : \E m \in MessageArgs(j, "None"),
          md \in MetaArgs(j) :
          /\ complete_job(j, ok, m, md)
          /\ lastCall' = Observed("complete_job", j, NoProgress,
                 Lookup(j, LAMBDA old : complete_info(old, ok, m, md)))
    /\ UNCHANGED <<now, repConfig>>
    /\ UNCHANGED notRepVars

SetStageCall ==
    /\ \E j \in callers, st \in ProgressStage : \E m \in MessageArgs(j, "None") :
          /\ set_stage(j, st, m)
          /\ lastCall' = Observed("set_stage", j, NoProgress,
                 Lookup(j, LAMBDA old : stage_info(old, st, m)))
    /\ UNCHANGED <<now, repConfig>>
    /\ UNCHANGED notRepVars

NextCalls ==
    \/ StartJobCall
    \/ UpdateProgressCall
    \/ CompleteJobCall
    \/ SetStageCall
    \/ ClockTick

\* ProgressReporter.get_job, lines 246-248
get_job(job_id) ==
    IF job_id \in DOMAIN activeJobs THEN activeJobs[job_id] ELSE None

\* ProgressReporter.get_all_jobs, lines 250-252
get_all_jobs == activeJobs

\* the last call returned a record
ReturnedRecord == lastCall.ret \notin {None, Raised}

\* the steps that are no call on a known id leave the table and the counts alone
TableUnchanged == UNCHANGED <<activeJobs, terminals, completed>>

\* C11: complete_job on an active job returns the final record with progress
\* equal to total, percent 100, for success and for failure.
C11_CompleteAtTotal ==
    (lastCall.op = "complete_job" /\ lastCall.found) =>
        /\ ReturnedRecord
        /\ is_complete(lastCall.ret)
        /\ lastCall.ret.progress = lastCall.ret.total
        /\ percent_complete(lastCall.ret) = 100

C11_Witness ==
    /\ lastCall.op = "complete_job" /\ lastCall.found
    /\ ReturnedRecord
    /\ lastCall.ret.stage = "error"
    /\ lastCall.ret.progress = DefaultTotal

\* C12: after complete_job returned for an active id the id is unknown:
\* get_job gives nothing, get_all_jobs does not hold it; complete_job for an id
\* that is not in the table returns None, invokes no sink and changes nothing.
C12_Gone ==
    lastCall.op = "complete_job" =>
        /\ get_job(lastCall.job) = None
        /\ lastCall.job \notin DOMAIN get_all_jobs
        /\ ~lastCall.found => lastCall.ret = None /\ lastCall.sent = {}

C12_SecondCompleteStep ==
    (lastCall'.op = "complete_job" /\ ~lastCall'.found) => TableUnchanged

C12_UnknownAfterComplete == []C12_Gone /\ [][C12_SecondCompleteStep]_vars

C12_Witness ==
    /\ lastCall.op = "complete_job" /\ ~lastCall.found
    /\ lastCall.job \in completed

\* C13: update_progress for an id never started or already completed returns
\* None, raises nothing, invokes no sink and leaves the table unchanged.
C13_Returned ==
    (lastCall.op = "update_progress" /\ ~lastCall.found) =>
        lastCall.ret = None /\ lastCall.sent = {}

C13_Step ==
    (lastCall'.op = "update_progress" /\ ~lastCall'.found) => TableUnchanged

C13_UnknownUpdate == []C13_Returned /\ [][C13_Step]_vars

C13_Witness ==
    /\ lastCall.op = "update_progress" /\ ~lastCall.found
    /\ lastCall.job \in completed

\* the sinks _notify owes a record handed to it at the time of the last call
SinksDue(info) ==
    IF lastCall.at - info.start_time < MIN_PROGRESS_THRESHOLD /\ ~is_complete(info)
    THEN {}
    ELSE sinks

\* C14: with a sink that raises, every reporter call still returns normally
\* with its change of the table applied (complete_job removes the job), and
\* the other sink is invoked all the same.
C14_SinkFailureContained ==
    (raising # {} /\ lastCall.op # "none") =>
        /\ lastCall.ret # Raised
        /\ (lastCall.found \/ lastCall.op = "start_job") => ReturnedRecord
        /\ ReturnedRecord =>
              /\ lastCall.sent = SinksDue(lastCall.ret)
              /\ IF lastCall.op = "complete_job"
                 THEN get_job(lastCall.job) = None
                 ELSE get_job(lastCall.job) = lastCall.ret

C14_Witness ==
    /\ sinks = {"callback", "context"} /\ raising = {"callback"}
    /\ lastCall.op = "complete_job" /\ lastCall.found
    /\ lastCall.sent = {"callback", "context"}
    /\ get_job(lastCall.job) = None

\* C15: a notification of start_job, update_progress or set_stage for a record
\* that is not complete reaches no sink when less than 1 second has passed
\* since the job started, and every configured sink otherwise; the change of
\* the record is applied in both cases.
C15_Throttle ==
    (/\ lastCall.op \in {"start_job", "update_progress", "set_stage"}
     /\ ReturnedRecord
     /\ ~is_complete(lastCall.ret)) =>
        /\ lastCall.at - lastCall.ret.start_time < 1 => lastCall.sent = {}
        /\ lastCall.at - lastCall.ret.start_time >= 1 => lastCall.sent = sinks
        /\ get_job(lastCall.job) = lastCall.ret
        /\ lastCall.op = "update_progress" => lastCall.ret.progress = lastCall.progress

C15_Witness ==
    /\ sinks = {"callback", "context"}
    /\ lastCall.op = "update_progress" /\ ReturnedRecord
    /\ ~is_complete(lastCall.ret)
    /\ lastCall.at - lastCall.ret.start_time < 1
    /\ lastCall.sent = {}
    /\ get_job(lastCall.job).progress = 50

\* C16 (as claimed): under update_progress, set_stage and complete_job the
\* stage of an active job follows init, processing, finalizing, then complete
\* or error, and never moves backwards.
C16_StageStep ==
    LET rank(st) == CASE st = "init" -> 0
                      [] st = "processing" -> 1
                      [] st = "finalizing" -> 2
                      [] OTHER -> 3
    IN  \A j \in DOMAIN activeJobs \cap DOMAIN activeJobs' :
            lastCall'.op # "start_job" =>
                rank(activeJobs'[j].stage) >= rank(activeJobs[j].stage)

C16_StageNeverBackwards == [][C16_StageStep]_vars

\* C17: update_progress, set_stage and complete_job on one job leave the
\* record of every other active job as it was, in every interleaving of the
\* calls for two jobs, and after an update the job holds the value sent for it.
C17_OthersUntouched ==
    \A b \in DOMAIN activeJobs :
        (/\ lastCall'.op \in {"update_progress", "set_stage", "complete_job"}
         /\ lastCall'.job # b) =>
            /\ b \in DOMAIN activeJobs'
            /\ activeJobs'[b] = activeJobs[b]

C17_HoldsValueSent ==
    (lastCall.op = "update_progress" /\ lastCall.found) =>
        /\ get_job(lastCall.job) # None
        /\ get_job(lastCall.job).progress = lastCall.progress

C19_SetStageStep ==
    \A j \in callers, st \in ProgressStage, m \in Messages \cup {"None"} :
        (/\ lastCall'.op = "set_stage" /\ lastCall'.job = j
         /\ set_stage(j, st, m)) =>
            IF j \in DOMAIN activeJobs
            THEN /\ lastCall'.found /\ lastCall'.ret = activeJobs'[j]
                 /\ activeJobs'[j].stage = st
                 /\ activeJobs'[j].message = IF m # "None" THEN m
                                             ELSE activeJobs[j].message
                 /\ activeJobs'[j].progress = activeJobs[j].progress
                 /\ activeJobs'[j].total = activeJobs[j].total
                 /\ activeJobs'[j].metadata = activeJobs[j].metadata
            ELSE /\ ~lastCall'.found /\ lastCall'.ret = None
                 /\ lastCall'.sent = {}
                 /\ TableUnchanged

C19_SetStageFrame == [][C19_SetStageStep]_vars

C19_Witness ==
    /\ lastCall.op = "set_stage" /\ lastCall.found
    /\ get_job(lastCall.job) # None
    /\ get_job(lastCall.job).stage = "finalizing"
    /\ get_job(lastCall.job).progress = 50
    /\ get_job(lastCall.job).metadata.source = "x"
    /\ get_job(lastCall.job).message = "Starting conversion"

C38_Step ==
    \A j \in callers, m \in Messages \cup {"Starting conversion"},
       md \in MetaDicts :
        (/\ lastCall'.op = "start_job" /\ lastCall'.job = j /\ lastCall'.found
         /\ j \in DOMAIN activeJobs
         /\ start_job(j, m, md)) =>
            /\ lastCall'.ret = activeJobs'[j]
            /\ DOMAIN activeJobs' = DOMAIN activeJobs
            /\ activeJobs'[j].stage = "init"
            /\ activeJobs'[j].progress = 0
            /\ activeJobs'[j].message = m
            /\ activeJobs'[j].metadata = md
            /\ \A b \in DOMAIN activeJobs \ {j} : activeJobs'[b] = activeJobs[b]

\* C38: start_job with an id that is in the table replaces the record of
\* that id: the table keeps the same ids, the record of the id is in stage
\* init with progress 0 and the message and metadata of the call, and the
\* record of every other job is as it was.
C38_StartReplaces == [][C38_Step]_vars

\* C38 witness: job-1 was started again, a second after its first start and
\* with a message and metadata, while job-2 was half done.
C38_Witness ==
    /\ lastCall.op = "start_job" /\ lastCall.job = "job-1" /\ lastCall.found
    /\ lastCall.at > 0
    /\ DOMAIN activeJobs = {"job-1", "job-2"}
    /\ activeJobs["job-1"] = [stage |-> "init", progress |-> 0,
                              total |-> DefaultTotal, message |-> "Halfway",
                              start_time |-> lastCall.at,
                              metadata |-> [source |-> "x"]]
    /\ activeJobs["job-2"].progress = 50
    /\ activeJobs["job-2"].stage = "processing"
    /\ activeJobs["job-2"].start_time = 0

(***************************************************************************)
(* Tasks that call one reporter at the same time.  Every operation is      *)
(* `async with self._lock:` around its whole body (lines 123, 157, 193,    *)
(* 234): a call waits in the queue of the asyncio.Lock while another call  *)
(* holds it, runs its body once it has the lock, and releases the lock     *)
(* when it returns.  A call that holds the lock may be suspended in a      *)
(* sink, so other calls arrive in between.                                 *)
(***************************************************************************)
NumCallers == 2
MaxCalls == 4
CallerTasks == 1..NumCallers

\* the calls the tasks make, with the default message and no metadata
ReporterCalls ==
    [op : {"start_job", "complete_job"}, job : JobIds,
     progress : {NoProgress}, waited : {FALSE}]
    \cup [op : {"update_progress"}, job : JobIds, progress : ProgressValues,
          waited : {FALSE}]
NoReporterCall ==
    [op |-> "none", job |-> "none", progress |-> NoProgress, waited |-> FALSE]

\* the body of the call c, run with the lock held
Perform(c) ==
    CASE c.op = "start_job" -> start_job(c.job, "Starting conversion", NoMeta)
      [] c.op = "update_progress" ->
             update_progress(c.job, c.progress, "None", "None", NoMeta)
      [] c.op = "complete_job" -> complete_job(c.job, TRUE, "None", NoMeta)
      [] c.op = "set_stage" -> set_stage(c.job, "processing", "None")

\* the progress the call c writes to the record of its job
Written(c) ==
    CASE c.op = "start_job" -> [lastReceived EXCEPT ![c.job] = 0]
      [] c.op = "update_progress" -> [lastReceived EXCEPT ![c.job] = c.progress]
      [] OTHER -> lastReceived

lock_free_barging == ~lockLocked

\* asyncio.Lock.acquire takes the lock at once when it is unlocked and no
\* task waits for it
lock_free == ~lockLocked /\ lockWaiters = <<>>

lock_wake_up_nobody(q, f) == f

\* asyncio.Lock._wake_up_first: the future at the head of the queue is set
lock_wake_up_first(q, f) ==
    IF q # <<>> /\ f[Head(q)] = "pending"
    THEN [f EXCEPT ![Head(q)] = "done"]
    ELSE f

\* a task calls the reporter: `async with self._lock` takes the lock and the
\* body runs, or the task queues for the lock
Arrives(t, c) ==
    /\ cpc[t] = "idle"
    /\ received < MaxCalls
    /\ received' = received + 1
    /\ lastReceived' = Written(c)
    /\ IF lock_free
       THEN /\ lockLocked' = TRUE
            /\ Perform(c)
            /\ ccall' = [ccall EXCEPT ![t] = c]
            /\ cpc' = [cpc EXCEPT ![t] = "inside"]
            /\ UNCHANGED <<lockWaiters, wfut>>
       ELSE /\ lockWaiters' = Append(lockWaiters, t)
            /\ wfut' = [wfut EXCEPT ![t] = "pending"]
            /\ ccall' = [ccall EXCEPT ![t] = [c EXCEPT !.waited = TRUE]]
            /\ cpc' = [cpc EXCEPT ![t] = "waiting"]
            /\ UNCHANGED <<lockLocked, activeJobs, terminals, completed>>
    /\ UNCHANGED notTaskVars

CallArrive(t) == \E c \in ReporterCalls : Arrives(t, c)

\* the four calls that take the lock, on one job: the job is unknown before
\* its start_job and after its complete_job
OneJobCalls ==
    [op : {"start_job", "update_progress", "complete_job", "set_stage"},
     job : {"job-1"}, progress : {50}, waited : {FALSE}]

\* a task makes any of the four calls on the job
OneJobCallArrive(t) == \E c \in OneJobCalls : Arrives(t, c)

\* a task whose future was set resumes in acquire: it leaves the queue, takes
\* the lock and runs the body of its call
CallResume(t) ==
    /\ cpc[t] = "waiting"
    /\ wfut[t] = "done"
    /\ lockWaiters' = SelectSeq(lockWaiters, LAMBDA u : u # t)
    /\ wfut' = [wfut EXCEPT ![t] = "none"]
    /\ lockLocked' = TRUE
    /\ Perform(ccall[t])
    /\ cpc' = [cpc EXCEPT ![t] = "inside"]
    /\ UNCHANGED <<ccall, received, lastReceived>>
    /\ UNCHANGED notTaskVars

\* the call returns: __aexit__ of the lock releases it and wakes a waiter
CallReturn(t) ==
    /\ cpc[t] = "inside"
    /\ lockLocked' = FALSE
    /\ wfut' = lock_wake_up_first(lockWaiters, wfut)
    /\ cpc' = [cpc EXCEPT ![t] = "idle"]
    /\ UNCHANGED <<lockWaiters, ccall, received, lastReceived>>
    /\ UNCHANGED <<activeJobs, terminals, completed>>
    /\ UNCHANGED notTaskVars

CallersIdle ==
    /\ lockLocked = FALSE
    /\ lockWaiters = <<>>
    /\ wfut = [t \in CallerTasks |-> "none"]
    /\ cpc = [t \in CallerTasks |-> "idle"]
    /\ ccall = [t \in CallerTasks |-> NoReporterCall]
    /\ received = 0
    /\ lastReceived = [j \in JobIds |-> 0]

NextCallers ==
    \/ \E t \in CallerTasks : CallArrive(t)
    \/ \E t \in CallerTasks : CallResume(t)
    \/ \E t \in CallerTasks : CallReturn(t)

\* C18: the updates of one job are applied in the order the calls were
\* received, whatever calls for other jobs come in between: once no call for
\* a job waits for the lock, its record holds the progress of the call
\* received last for it.
C18_LastReceivedWins ==
    \A j \in DOMAIN activeJobs :
        (\A t \in CallerTasks : cpc[t] = "waiting" => ccall[t].job # j) =>
            activeJobs[j].progress = lastReceived[j]

C18_Witness ==
    /\ \A t \in CallerTasks : cpc[t] = "idle"
    /\ ccall[1] = [op |-> "update_progress", job |-> "job-1", progress |-> 50,
                   waited |-> TRUE]
    /\ ccall[2] = [op |-> "update_progress", job |-> "job-1", progress |-> 0,
                   waited |-> TRUE]
    /\ DOMAIN activeJobs = {"job-1", "job-2"}
    /\ activeJobs["job-1"].progress = 0 /\ lastReceived["job-1"] = 0

NextOneJobCallers ==
    \/ \E t \in CallerTasks : OneJobCallArrive(t)
    \/ \E t \in CallerTasks : CallResume(t)
    \/ \E t \in CallerTasks : CallReturn(t)

\* a call holds the lock only while its body runs
LockHeldByCall == lockLocked => \E t \in CallerTasks : cpc[t] = "inside"

\* C37: every reporter call returns, given that a sink that was invoked
\* returns or raises, and the lock is free once the call is over, whether the
\* job was found or not and whether a sink raised: a call that queues for
\* the lock gets it.
C37_CallsReturn ==
    /\ []LockHeldByCall
    /\ \A t \in CallerTasks : (cpc[t] # "idle") ~> (cpc[t] = "idle")

\* C37 witness: complete_job invoked a raising callback with the terminal
\* record, a set_stage call queued behind it and found the job gone, and both
\* calls have returned with the lock free.
C37_Witness ==
    /\ raising = {"callback"}
    /\ terminals["job-1"] >= 1
    /\ \A t \in CallerTasks : cpc[t] = "idle"
    /\ ccall[1].op = "complete_job"
    /\ ccall[2].op = "set_stage" /\ ccall[2].waited
    /\ "job-1" \notin DOMAIN activeJobs
    /\ lock_free

(***************************************************************************)
(* ConversionQueue.  submit and cancel run under the queue's lock with no  *)
(* suspension inside (the asyncio.Queue is unbounded, so put returns at    *)
(* once), so each is one step.  wait_for_job polls the table every 0.1 s.  *)
(* Nothing in the queue runs a job: the status of a job is moved on by     *)
(* whoever drives the queue, as the tests do.                              *)
(***************************************************************************)
MaxJobs == 2
MaxWait == 2

\* the ids uuid4 can yield, and an id no job has
QueueIds == 1..MaxJobs
UnknownId == 0

JobStatus == {"queued", "running", "completed", "failed", "cancelled"}
TerminalStatus == {"completed", "failed", "cancelled"}

notQueueVars == <<limVars, sideVars, convVars, reqVars, procVars, callVars, repVars>>

\* str(uuid.uuid4()): an id that no job of the table has
uuid4 == QueueIds \ DOMAIN qjobs

\* ConversionJob(id=..., ...): the status defaults to queued
ConversionJob(id) == [id |-> id, status |-> "queued"]

\* the timeout arguments of wait_for_job: None, or a number of polling
\* intervals
Timeouts ==
    {[given |-> FALSE, secs |-> 0]}
        \cup {[given |-> TRUE, secs |-> n] : n \in 0..MaxWait}

\* `if timeout:` -- None and 0 are both false
truthy(t) == t.given /\ t.secs # 0

\* self._jobs.get(job_id)
jobs_get(job_id) == IF job_id \in DOMAIN qjobs THEN qjobs[job_id] ELSE None

StatusOf(table, job_id) ==
    IF job_id \in DOMAIN table THEN table[job_id].status ELSE "absent"

\* what a queue call leaves in lastQ
QueueCall(op, job_id, ret, table) ==
    [op |-> op, job |-> job_id, ret |-> ret,
     was |-> StatusOf(qjobs, job_id), after |-> StatusOf(table, job_id)]

NoQueueCall ==
    [op |-> "none", job |-> UnknownId, ret |-> None, was |-> "absent",
     after |-> "absent"]

\* ConversionQueue.submit: the table and the FIFO after it
submit_dispatching(id) ==
    [jobs |-> (id :> [ConversionJob(id) EXCEPT !.status = "running"]) @@ qjobs,
     fifo |-> qfifo]

submit(id) ==
    [jobs |-> (id :> ConversionJob(id)) @@ qjobs,
     fifo |-> Append(qfifo, id)]

\* ConversionQueue.cancel: the value returned and the table after it
cancel_preempting(job_id) ==
    IF job_id \in DOMAIN qjobs /\ qjobs[job_id].status \in {"queued", "running"}
    THEN [ret |-> TRUE, jobs |-> [qjobs EXCEPT ![job_id].status = "cancelled"]]
    ELSE [ret |-> FALSE, jobs |-> qjobs]

cancel_any(job_id) ==
    IF job_id \in DOMAIN qjobs
    THEN [ret |-> TRUE, jobs |-> [qjobs EXCEPT ![job_id].status = "cancelled"]]
    ELSE [ret |-> FALSE, jobs |-> qjobs]

cancel_removing(job_id) ==
    IF job_id \in DOMAIN qjobs /\ qjobs[job_id].status = "queued"
    THEN [ret |-> TRUE, jobs |-> [k \in DOMAIN qjobs \ {job_id} |-> qjobs[k]]]
    ELSE [ret |-> FALSE, jobs |-> qjobs]

cancel(job_id) ==
    IF job_id \in DOMAIN qjobs /\ qjobs[job_id].status = "queued"
    THEN [ret |-> TRUE, jobs |-> [qjobs EXCEPT ![job_id].status = "cancelled"]]
    ELSE [ret |-> FALSE, jobs |-> qjobs]

\* One round of the loop of wait_for_job, up to the sleep: where the call is
\* after it.
wait_round(job_id, timeout, slept) ==
    IF jobs_get(job_id) = None THEN "ValueError"
    ELSE IF jobs_get(job_id).status \in TerminalStatus THEN "returned"
    ELSE IF truthy(timeout) /\ slept >= timeout.secs THEN "TimeoutError"
    ELSE "sleeping"

SubmitCall ==
    /\ \E id \in uuid4 :
          /\ qjobs' = submit(id).jobs
          /\ qfifo' = submit(id).fifo
          /\ lastQ' = QueueCall("submit", id, id, submit(id).jobs)
    /\ UNCHANGED <<wpc, wjob, wtimeout, welapsed>>
    /\ UNCHANGED notQueueVars

GetJobCall ==
    /\ \E id \in QueueIds \cup {UnknownId} :
          lastQ' = QueueCall("get_job", id, jobs_get(id), qjobs)
    /\ UNCHANGED <<qjobs, qfifo, wpc, wjob, wtimeout, welapsed>>
    /\ UNCHANGED notQueueVars

CancelCall ==
    /\ \E id \in QueueIds \cup {UnknownId} :
          /\ qjobs' = cancel(id).jobs
          /\ lastQ' = QueueCall("cancel", id, cancel(id).ret, cancel(id).jobs)
    /\ UNCHANGED <<qfifo, wpc, wjob, wtimeout, welapsed>>
    /\ UNCHANGED notQueueVars

\* wait_for_job is called: the first round of its loop runs at once.
WaitCall ==
    /\ wpc # "sleeping"
    /\ \E id \in QueueIds \cup {UnknownId}, t \in Timeouts :
          /\ wjob' = id
          /\ wtimeout' = t
          /\ wpc' = wait_round(id, t, 0)
    /\ welapsed' = 0
    /\ UNCHANGED <<qjobs, qfifo, lastQ>>
    /\ UNCHANGED notQueueVars

\* asyncio.sleep(0.1) is over: the next round.  The time slept is counted up
\* to the timeout only, which is all the loop compares it with.
WaitWake ==
    /\ wpc = "sleeping"
    /\ LET slept == IF truthy(wtimeout) THEN welapsed + 1 ELSE welapsed
       IN  /\ welapsed' = slept
           /\ wpc' = wait_round(wjob, wtimeout, slept)
    /\ UNCHANGED <<qjobs, qfifo, lastQ, wjob, wtimeout>>
    /\ UNCHANGED notQueueVars

\* Whoever drives the queue starts a queued job ...
DriverStart ==
    /\ \E id \in DOMAIN qjobs :
          /\ qjobs[id].status = "queued"
          /\ qjobs' = [qjobs EXCEPT ![id].status = "running"]
    /\ UNCHANGED <<qfifo, lastQ, wpc, wjob, wtimeout, welapsed>>
    /\ UNCHANGED notQueueVars

\* ... and records how it ended.
DriverFinish ==
    /\ \E id \in DOMAIN qjobs, st \in {"completed", "failed"} :
          /\ qjobs[id].status = "running"
          /\ qjobs' = [qjobs EXCEPT ![id].status = st]
    /\ UNCHANGED <<qfifo, lastQ, wpc, wjob, wtimeout, welapsed>>
    /\ UNCHANGED notQueueVars

QueueIdle ==
    /\ qjobs = <<>>
    /\ qfifo = <<>>
    /\ lastQ = NoQueueCall
    /\ wpc = "idle"
    /\ wjob = UnknownId
    /\ wtimeout = [given |-> FALSE, secs |-> 0]
    /\ welapsed = 0

\* the calls that read or write the job table, and the code that runs jobs
NextQueue ==
    \/ SubmitCall
    \/ GetJobCall
    \/ CancelCall
    \/ DriverStart
    \/ DriverFinish

\* the same with a caller of wait_for_job
NextWaiting ==
    \/ SubmitCall
    \/ GetJobCall
    \/ CancelCall
    \/ WaitCall
    \/ WaitWake
    \/ DriverStart
    \/ DriverFinish

\* C22: cancel returns true exactly when the job exists and is queued at the
\* call, and then sets it to cancelled; for an unknown id and for a running,
\* completed, failed or cancelled job it returns false and the status stays.
C22_CancelOnlyQueued ==
    lastQ.op = "cancel" =>
        /\ lastQ.ret = (lastQ.was = "queued")
        /\ lastQ.after = IF lastQ.was = "queued" THEN "cancelled" ELSE lastQ.was

\* C22 witness: a cancel of a running job returned false after an earlier
\* cancel had cancelled a queued job.
C22_Witness ==
    /\ lastQ.op = "cancel" /\ lastQ.was = "running" /\ lastQ.ret = FALSE
    /\ \E id \in DOMAIN qjobs : qjobs[id].status = "cancelled"

\* C23: with a timeout supplied, wait_for_job ends: it returns the job once
\* its status is terminal and fails with the timeout error otherwise, also
\* when nobody ever runs the job.
C23_WaitTerminates ==
    (wpc = "sleeping" /\ wtimeout.given) ~> (wpc # "sleeping")

\* the moves of a job's status that a call of the queue makes
QueueMoves == {<<"absent", "queued">>, <<"queued", "cancelled">>}

C24_Move(id) == <<StatusOf(qjobs, id), StatusOf(qjobs', id)>>

C24_Step ==
    \A id \in QueueIds :
        LET old == C24_Move(id)[1]
            new == C24_Move(id)[2]
        IN  \/ old = new
            \/ /\ old \notin TerminalStatus
               /\ new \notin {"absent", "queued"} \/ old = "absent"
               /\ old = "absent" => new = "queued"
               /\ (DriverStart \/ DriverFinish) \/ C24_Move(id) \in QueueMoves

\* C24: a job is created queued, its status never leaves completed, failed
\* or cancelled and never goes back to queued, and the calls of the queue
\* themselves only create a queued job or cancel a queued one.
C24_StatusForward == [][C24_Step]_vars

\* C24 witness: a cancel of a completed job has left it completed.
C24_Witness ==
    /\ lastQ.op = "cancel" /\ lastQ.was = "completed"
    /\ qjobs[lastQ.job].status = "completed"

C25_Step ==
    DOMAIN qjobs' # DOMAIN qjobs =>
        \E id \in DOMAIN qjobs' \ DOMAIN qjobs :
            /\ DOMAIN qjobs' = DOMAIN qjobs \cup {id}
            /\ lastQ'.op = "submit" /\ lastQ'.ret = id
            /\ qjobs'[id].status = "queued"
            /\ qfifo' = Append(qfifo, id)
            /\ \A j \in DOMAIN qjobs : qjobs'[j] = qjobs[j]
            /\ UNCHANGED <<limVars, convVars, reqVars, procVars>>

\* C25: submit returns an id that no earlier job has, enters the job in the
\* table as queued and appends it to the FIFO, and starts nothing: no job
\* becomes running, no limiter slot is taken, no process is spawned.
C25_SubmitOnlyRegisters == [][C25_Step]_vars

\* C25 witness: a second submit has returned; both jobs are queued in the
\* order of submission and all permits of the limiter are free.
C25_Witness ==
    /\ lastQ.op = "submit" /\ Len(qfifo) = 2
    /\ qfifo[1] # qfifo[2] /\ lastQ.ret = qfifo[2]
    /\ \A id \in DOMAIN qjobs : qjobs[id].status = "queued"
    /\ semValue = Capacity

\* the jobs the FIFO yields, in order: submit puts into the asyncio.Queue the
\* object it enters in the table (lines 87-88), so a get yields the job as
\* the table has it
FifoJobs == [i \in 1..Len(qfifo) |-> qjobs[qfifo[i]]]

\* a cancel call has returned in this step (a call that repeats the last one
\* with the same outcome changes nothing at all)
CancelReturned == lastQ' # lastQ /\ lastQ'.op = "cancel"

C39_CancelStep ==
    CancelReturned =>
        /\ qfifo' = qfifo
        /\ DOMAIN qjobs' = DOMAIN qjobs
        /\ \A id \in DOMAIN qjobs :
              qjobs'[id] = IF id = lastQ'.job /\ lastQ'.ret
                           THEN [qjobs[id] EXCEPT !.status = "cancelled"]
                           ELSE qjobs[id]
        /\ lastQ'.ret =>
              \E i \in 1..Len(qfifo') :
                  /\ qfifo'[i] = lastQ'.job
                  /\ FifoJobs'[i] = [id |-> lastQ'.job, status |-> "cancelled"]
        /\ UNCHANGED <<limVars, convVars, reqVars, procVars>>

C39_KeepsIds ==
    /\ DOMAIN qjobs \subseteq DOMAIN qjobs'
    /\ (lastQ' # lastQ /\ lastQ'.op = "get_job" /\ lastQ'.job \in DOMAIN qjobs)
          => lastQ'.ret = qjobs[lastQ'.job]

\* C39: cancel changes the status of the job it cancels and nothing else:
\* the table keeps its ids, the FIFO is as it was and still yields the job,
\* now cancelled, every other job is as it was; and no step of the queue
\* takes an id out of the table, so get_job finds every id submit returned.
C39_CancelFrame == [][C39_CancelStep /\ C39_KeepsIds]_vars

\* C39 witness: the first of two submitted jobs was cancelled while the
\* second was running; the FIFO holds both, the first one cancelled.
C39_Witness ==
    /\ lastQ.op = "cancel" /\ lastQ.ret = TRUE
    /\ Len(qfifo) = 2 /\ qfifo[1] = lastQ.job
    /\ FifoJobs[1].status = "cancelled"
    /\ FifoJobs[2].status = "running"
    /\ jobs_get(lastQ.job) = [id |-> lastQ.job, status |-> "cancelled"]

(***************************************************************************)
(* The router's choice of a converter (router.py), the file manager's      *)
(* output path (file_manager.py).                                          *)
(***************************************************************************)
\* image.py lines 21-22, video.py lines 21-22, audio.py lines 18-19,
\* ebook.py lines 19-20
IMG_IN == {"jpg", "jpeg", "png", "gif", "webp", "tiff", "tif", "bmp", "svg"}
IMG_OUT == {"jpg", "jpeg", "png", "gif", "webp", "tiff", "bmp"}
VID_IN == {"mp4", "avi", "mov", "webm", "mkv", "wmv", "flv", "m4v"}
VID_OUT == {"mp4", "avi", "mov", "webm", "mkv"}
AUD_IN == {"mp3", "wav", "flac", "aac", "ogg", "m4a", "wma", "aiff"}
AUD_OUT == {"mp3", "wav", "flac", "aac", "ogg", "m4a"}
EBOOK_IN == {"epub", "pdf", "mobi", "azw", "azw3", "txt", "rtf", "html", "docx"}
EBOOK_OUT == {"epub", "pdf", "mobi", "azw3", "txt"}

\* the format names a caller may pass: every name of the sets, some of them
\* spelled with capitals, and a name no converter knows
Capitalised == {"MP4", "Mp3", "JPG", "Svg", "EPUB"}
FormatNames ==
    IMG_IN \cup VID_IN \cup AUD_IN \cup EBOOK_IN \cup Capitalised \cup {"xyz"}

\* str.lower()
lower(s) ==
    CASE s = "MP4" -> "mp4"
      [] s = "Mp3" -> "mp3"
      [] s = "JPG" -> "jpg"
      [] s = "Svg" -> "svg"
      [] s = "EPUB" -> "epub"
      [] s = "PDF" -> "pdf"
      [] OTHER -> s

get_converter_type_as_spelled(source_format, target_format) ==
    LET src == source_format
        tgt == target_format
    IN  IF src \in IMG_IN /\ tgt \in IMG_OUT THEN "image"
        ELSE IF src \in VID_IN /\ tgt \in VID_OUT THEN "video"
        ELSE IF src \in VID_IN /\ tgt \in AUD_OUT THEN "video"
        ELSE IF src \in AUD_IN /\ tgt \in AUD_OUT THEN "audio"
        ELSE IF src \in EBOOK_IN /\ tgt \in EBOOK_OUT THEN "ebook"
        ELSE "unsupported"

\* ConverterRouter.get_converter_type, router.py lines 71-98; "unsupported":
\* it raises FormatNotSupportedError
get_converter_type(source_format, target_format) ==
    LET src == lower(source_format)
        tgt == lower(target_format)
    IN  IF src \in IMG_IN /\ tgt \in IMG_OUT THEN "image"
        ELSE IF src \in VID_IN /\ tgt \in VID_OUT THEN "video"
        ELSE IF src \in VID_IN /\ tgt \in AUD_OUT THEN "video"
        ELSE IF src \in AUD_IN /\ tgt \in AUD_OUT THEN "audio"
        ELSE IF src \in EBOOK_IN /\ tgt \in EBOOK_OUT THEN "ebook"
        ELSE "unsupported"

NotRouted == [op |-> "none", src |-> "xyz", tgt |-> "xyz", ret |-> "unsupported"]

GetConverterTypeCall ==
    /\ \E s \in FormatNames, t \in FormatNames :
          routed' = [op |-> "get_converter_type", src |-> s, tgt |-> t,
                     ret |-> get_converter_type(s, t)]
    /\ UNCHANGED <<files, resolved, tpc, texc, shutdown>>
    /\ UNCHANGED <<limVars, convVars, queueVars, reqVars, procVars, callVars,
                   repVars>>

NextRouter == GetConverterTypeCall

\* what the same letters in another case stand for
SameFormat(a, b) == lower(a) = lower(b)
IsIn(name, formats) == \E f \in formats : SameFormat(name, f)

\* C31: get_converter_type compares without regard to case and returns image
\* for an image input with an image output, else video for a video input with
\* a video or an audio output, else audio for an audio pair, else ebook for an
\* ebook pair, and fails otherwise; (mp4, mp3) gives video and (jpg, svg) is
\* unsupported.
C31_Routing ==
    routed.op = "get_converter_type" =>
        LET s == routed.src
            t == routed.tgt
        IN  /\ routed.ret =
                 IF IsIn(s, IMG_IN) /\ IsIn(t, IMG_OUT) THEN "image"
                 ELSE IF IsIn(s, VID_IN) /\ IsIn(t, VID_OUT \cup AUD_OUT)
                      THEN "video"
                 ELSE IF IsIn(s, AUD_IN) /\ IsIn(t, AUD_OUT) THEN "audio"
                 ELSE IF IsIn(s, EBOOK_IN) /\ IsIn(t, EBOOK_OUT) THEN "ebook"
                 ELSE "unsupported"
            /\ (SameFormat(s, "mp4") /\ SameFormat(t, "mp3"))
                  => routed.ret = "video"
            /\ (SameFormat(s, "jpg") /\ SameFormat(t, "svg"))
                  => routed.ret = "unsupported"

\* C31 witness: a video spelled in capitals was routed to the video converter
\* for an audio target.
C31_Witness ==
    /\ routed.op = "get_converter_type"
    /\ routed.src = "MP4" /\ routed.tgt = "Mp3"
    /\ routed.ret = "video"

\* file_manager.py line 82: the largest suffix tried (`if counter > 1000`)
MaxCollisions == 3
Dirs == {"source", "output"}
Suffixes == 0..MaxCollisions
\* the target formats a caller passes: lower case, capitals, the empty string
TargetFormats == {"pdf", "PDF", ""}
FileOperationError(message) == [kind |-> "FileOperationError", message |-> message]
OutputPath(dir, n, fmt) == [kind |-> "path", dir |-> dir, n |-> n, fmt |-> fmt]

RECURSIVE rename_loop_stops_early(_, _)
rename_loop_stops_early(existing, counter) ==
    IF counter \notin existing THEN counter
    ELSE IF counter + 1 >= MaxCollisions THEN -1
    ELSE rename_loop_stops_early(existing, counter + 1)

\* file_manager.py lines 74-85: the while loop, entered with counter; the
\* suffix it breaks with, -1 when it raises
RECURSIVE rename_loop(_, _)
rename_loop(existing, counter) ==
    IF counter \notin existing THEN counter
    ELSE IF counter + 1 > MaxCollisions THEN -1
    ELSE rename_loop(existing, counter + 1)

\* FileManager.resolve_output_path, lines 36-87, of a manager built with an
\* output directory (given) or without
resolve_output_path(source_ok, given, target_format) ==
    IF ~source_ok THEN FileOperationError("source")
    ELSE LET out_dir == IF given THEN "output" ELSE "source"
             fmt == lower(target_format)
         IN  IF target_format = "" THEN FileOperationError("format")
             ELSE IF 0 \notin files[out_dir] THEN OutputPath(out_dir, 0, fmt)
             ELSE LET n == rename_loop(files[out_dir], 1)
                  IN  IF n = -1 THEN FileOperationError("collisions")
                      ELSE OutputPath(out_dir, n, fmt)

NotResolved == [op |-> "none", source_ok |-> FALSE, given |-> FALSE, fmt |-> "",
                ret |-> FileOperationError("none")]

ResolveCall ==
    /\ \E ok \in BOOLEAN, given \in BOOLEAN, f \in TargetFormats :
          resolved' = [op |-> "resolve_output_path", source_ok |-> ok,
                       given |-> given, fmt |-> f,
                       ret |-> resolve_output_path(ok, given, f)]
    /\ UNCHANGED <<routed, files, tpc, texc, shutdown>>
    /\ UNCHANGED <<limVars, convVars, queueVars, reqVars, procVars, callVars,
                   repVars>>

\* a file with one of the names appears in a directory (an earlier
\* conversion wrote it, or anybody else)
CreateFile ==
    /\ \E d \in Dirs, n \in Suffixes :
          /\ n \notin files[d]
          /\ files' = [files EXCEPT ![d] = @ \cup {n}]
    /\ UNCHANGED <<routed, resolved, tpc, texc, shutdown>>
    /\ UNCHANGED <<limVars, convVars, queueVars, reqVars, procVars, callVars,
                   repVars>>

NextFiles ==
    \/ ResolveCall
    \/ CreateFile

C32_Step ==
    (/\ resolved' # resolved
     /\ resolved'.source_ok
     /\ resolved'.fmt # "") =>
        LET dir == IF resolved'.given THEN "output" ELSE "source"
            ret == resolved'.ret
        IN  IF Suffixes \subseteq files[dir]
            THEN ret.kind = "FileOperationError"
            ELSE /\ ret.kind = "path"
                 /\ ret.dir = dir
                 /\ ret.fmt = "pdf"
                 /\ ret.n \notin files[dir]
                 /\ \A k \in 0..(ret.n - 1) : k \in files[dir]

\* C32: resolve_output_path returns the first of stem.fmt, stem_1.fmt,
\* stem_2.fmt, ... that does not exist in the output directory (the source's
\* directory unless one is given), never an existing file, and fails when
\* stem.fmt and every stem_n.fmt up to the largest suffix exist.
C32_FirstFreeName == [][C32_Step]_vars

\* C32 witness: with a.pdf and a_1.pdf in the given directory the call gave
\* a_2.pdf.
C32_Witness ==
    /\ resolved.op = "resolve_output_path"
    /\ files["output"] = {0, 1}
    /\ resolved.ret = OutputPath("output", 2, "pdf")

(***************************************************************************)
(* GracefulShutdown (server.py lines 31-46).                               *)
(***************************************************************************)
\* GracefulShutdown.is_shutting_down, lines 38-40
is_shutting_down == shutdown

initiate_shutdown_toggles == ~shutdown

\* GracefulShutdown.initiate_shutdown, lines 42-46: the flag after the call
initiate_shutdown == IF ~shutdown THEN TRUE ELSE shutdown

\* the signal handler or the lifespan's exit calls initiate_shutdown (lines
\* 101 and 290)
InitiateShutdown ==
    /\ shutdown' = initiate_shutdown
    /\ UNCHANGED <<routed, files, resolved, tpc, texc>>
    /\ UNCHANGED <<limVars, convVars, queueVars, reqVars, procVars, callVars,
                   repVars>>

(***************************************************************************)
(* One conversion request, from its entry to its answer: the tool          *)
(* convert_file of server.py, the router, a converter, the limiter slot    *)
(* and the external tool.  The request runs as task 1.                     *)
(***************************************************************************)
ReqTask == 1
\* router.py lines 72-98: the converter a pair of formats is routed to;
\* "unsupported": get_converter_type raises FormatNotSupportedError.
Routes == {"image", "video", "extract_audio", "audio", "ebook", "unsupported"}
Qualities == {"medium", "extreme"}
valid_qualities_open == {"low", "medium", "high", "extreme"}

\* server.py line 181
valid_qualities == {"low", "medium", "high"}
\* the progress arguments of VideoConverter.convert: none, a callback, or a
\* callback together with a reporter and a job id
ProgressModes == {"none", "callback", "both"}
\* where VideoConverter calls the callback: line 123, line 268, line 164
CallbackPoints == {"initial", "parsed", "final"}
ReqJob == "job-1"

NoRequest == [entry |-> "none", route |-> "unsupported", quality |-> "medium",
              source_ok |-> TRUE, shutting |-> FALSE, progress |-> "none",
              cb_raises |-> {}]

\* the calls of convert_file: it passes no progress argument to the router
\* (server.py lines 191-197); shutting: what is_shutting_down() gives it (line
\* 167)
ServerRequests ==
    [entry : {"convert_file"}, route : Routes, quality : Qualities,
     source_ok : BOOLEAN, shutting : {is_shutting_down}, progress : {"none"},
     cb_raises : {{}}]

\* the direct calls of a converter's convert: only the video converter takes
\* progress arguments, and only a callback can raise
ConverterRequests ==
    {r \in [entry : {"convert"}, route : Routes \ {"unsupported"},
            quality : Qualities, source_ok : {TRUE}, shutting : {FALSE},
            progress : ProgressModes, cb_raises : SUBSET CallbackPoints] :
        /\ r.progress # "none" => r.route = "video"
        /\ r.progress = "none" => r.cb_raises = {}
        /\ r.quality = "medium"}

\* what a request ends with
Success == [kind |-> "path"]
ConversionError(message) == [kind |-> "ConversionError", message |-> message]
FormatNotSupportedError == [kind |-> "FormatNotSupportedError"]
ValueError(message) == [kind |-> "ValueError", message |-> message]
\* the exception a raising progress callback raises
CallbackError == [kind |-> "CallbackError"]
\* an exception of the image library (image.py lines 101-110)
LibraryError == [kind |-> "LibraryError"]
ErrorAnswer(message) == [kind |-> "answer", status |-> "error", message |-> message]
SuccessAnswer == [kind |-> "answer", status |-> "success", message |-> "converted"]

\* video.py line 136, audio.py line 107, ebook.py line 95, video.py line 333:
\* safe_subprocess(cmd, timeout=...) with the defaults check_returncode=True
\* and capture_output=True; the video converter waits longest.
converter_args(route) ==
    [cmd |-> IF route = "ebook" THEN "ebook-convert" ELSE "ffmpeg",
     timeout |-> IF route = "video" THEN MaxTimeout ELSE 1,
     check_returncode |-> TRUE, capture_output |-> TRUE]

\* video.py lines 129-134 and 231: _run_with_progress with its default timeout
progress_args ==
    [cmd |-> "ffmpeg", timeout |-> MaxTimeout,
     check_returncode |-> FALSE, capture_output |-> TRUE]

\* What the converter makes of the end of its tool call (video.py lines
\* 138-156, audio.py lines 109-118, ebook.py lines 97-107, video.py lines
\* 335-336): a returned non-zero code becomes ConversionError, and so does
\* asyncio.TimeoutError where the converter has the handler; every other
\* exception leaves the converter as it is.
converter_result(route, oc) ==
    IF oc.kind = "returned"
    THEN IF oc.returncode # 0 THEN ConversionError("failed") ELSE Success
    ELSE IF oc.kind = "TimeoutError" /\ route # "extract_audio"
         THEN ConversionError("timed out")
         ELSE oc

\* server.py lines 191-215: the answer convert_file makes of the router's
\* result; `except Exception` does not catch CancelledError.
answer(x) ==
    IF x.kind = "path" THEN SuccessAnswer
    ELSE IF x.kind = "CancelledError" THEN x
    ELSE ErrorAnswer(x.kind)

\* what the caller of the request receives
delivered(r, x) == IF r.entry = "convert_file" THEN answer(x) ELSE x

\* After the tool call ended no layer calls the tool again: safe_subprocess and
\* _run_with_progress return or raise (async_utils.py lines 124-144, video.py
\* lines 279-290), the converter raises or returns (video.py lines 138-167),
\* the router returns the converter's result (router.py lines 158-169) and
\* convert_file answers (server.py lines 199-215).
starts_again_on_failure(x) == x.kind # "path" /\ spawns < 2

starts_again(x) == FALSE

\* the request ends before a converter's tool call: nothing else moves
EndsEarly(r, x) ==
    /\ creq' = r
    /\ cpos' = "done"
    /\ cresult' = x
    /\ UNCHANGED <<spawns, limVars, procVars, callVars>>

\* async with concurrency_limiter, then the spawn of the tool (async_utils.py
\* lines 104-111, video.py line 231) or the hand-over to the image library
EntersSlot(r) ==
    /\ creq' = r
    /\ acquire(ReqTask)
    /\ UNCHANGED lexit
    /\ UNCHANGED cresult
    /\ IF r.route = "image"
       THEN /\ cpos' = "library"
            /\ UNCHANGED <<spawns, procVars, callVars>>
       ELSE /\ cpos' = "tool"
            /\ spawns' = spawns + 1
            /\ proc' = "running"
            /\ UNCHANGED <<exitCode, stderrText, signals>>
            /\ IF r.progress = "none"
               THEN /\ args' = converter_args(r.route)
                    /\ sp' = "wait"
                    /\ UNCHANGED rp
               ELSE /\ args' = progress_args
                    /\ rp' = "wait"
                    /\ UNCHANGED sp
            /\ UNCHANGED <<elapsed, grace, pending, outcome, logged, cancels,
                           timedOut, cancelledAt, forwarded>>

\* server.py lines 188-189: FileManager(output_dir).resolve_output_path(source,
\* target_format), with or without an output directory
Resolves ==
    \E given \in BOOLEAN :
        resolved' = [op |-> "resolve_output_path", source_ok |-> TRUE,
                     given |-> given, fmt |-> "pdf",
                     ret |-> resolve_output_path(TRUE, given, "pdf")]

\* convert_file, server.py lines 166-197, up to the tool call of the converter
\* the router picked (router.py lines 155-169)
ConvertFileCall ==
    /\ cpos = "idle"
    /\ \E r \in ServerRequests :
          IF r.shutting
          THEN /\ EndsEarly(r, ErrorAnswer("shutting down"))
               /\ UNCHANGED <<entered, resolved>>
          ELSE IF ~r.source_ok
          THEN /\ EndsEarly(r, ValueError("source"))
               /\ UNCHANGED <<entered, resolved>>
          ELSE IF r.quality \notin valid_qualities
          THEN /\ EndsEarly(r, ValueError("quality"))
               /\ UNCHANGED <<entered, resolved>>
          ELSE /\ Resolves
               /\ IF r.route = "unsupported"
                  THEN /\ EndsEarly(r, answer(FormatNotSupportedError))
                       /\ UNCHANGED entered
                  ELSE /\ EntersSlot(r)
                       /\ entered' = entered + 1
    /\ UNCHANGED cbCalls
    /\ UNCHANGED <<routed, files, tpc, texc, shutdown>>
    /\ UNCHANGED <<convVars, queueVars, repVars>>

\* a converter's convert called directly, up to its tool call; for the video
\* converter lines 114-125: start_job when a reporter and a job id are given,
\* else the callback with 0.0
ConverterCall ==
    /\ cpos = "idle"
    /\ \E r \in ConverterRequests :
          /\ entered' = entered + 1
          /\ IF r.progress = "both"
             THEN /\ start_job(ReqJob, "Halfway", NoMeta)
                  /\ UNCHANGED cbCalls
                  /\ EntersSlot(r)
             ELSE /\ UNCHANGED <<activeJobs, terminals, completed>>
                  /\ IF r.progress = "callback"
                     THEN /\ cbCalls' = <<0>>
                          /\ IF "initial" \in r.cb_raises
                             THEN EndsEarly(r, CallbackError)
                             ELSE EntersSlot(r)
                     ELSE /\ UNCHANGED cbCalls
                          /\ EntersSlot(r)
    /\ UNCHANGED <<now, repConfig, lastCall, lockVars>>
    /\ UNCHANGED <<convVars, queueVars, sideVars>>

\* _run_with_progress returns with no reporter given (video.py lines 274-277
\* are skipped)
StreamDonePlain ==
    /\ creq.progress # "both"
    /\ StreamDone

\* _run_with_progress returns with a reporter given (video.py lines 254-279):
\* a parsed percentage goes to the callback and to update_progress
StreamDoneReporting ==
    /\ rp = "wait"
    /\ proc \in Collected
    /\ creq.progress = "both"
    /\ \E matched \in BOOLEAN, percent \in Percents :
          IF matched /\ stderrText # ""
          THEN /\ forwarded' = Append(forwarded, percent)
               /\ update_progress(ReqJob, percent, "None", "Halfway", NoMeta)
          ELSE /\ UNCHANGED forwarded
               /\ NotFound
    /\ rp' = "done"
    /\ outcome' = [kind |-> "returned", returncode |-> exitCode,
                   stderr |-> stderrText]
    /\ UNCHANGED procVars
    /\ UNCHANGED <<args, sp, elapsed, grace, pending, logged, cancels,
                   timedOut, cancelledAt>>
    /\ UNCHANGED <<now, repConfig, lastCall, lockVars>>
    /\ UNCHANGED <<limVars, convVars, queueVars, sideVars, reqVars>>

\* ConcurrencyLimiter.__aexit__ (async_utils.py lines 39-41) at the end of the
\* converter's async with block
LeavesSlot(how) ==
    /\ release
    /\ lpc' = [lpc EXCEPT ![ReqTask] = "out"]
    /\ lexit' = [lexit EXCEPT ![ReqTask] = how]
    /\ UNCHANGED semWaiters

\* the tool is spawned again for the same request
Respawn ==
    /\ spawns' = spawns + 1
    /\ proc' = "running"
    /\ exitCode' = "none"
    /\ stderrText' = ""
    /\ signals' = <<>>
    /\ sp' = IF sp = "done" THEN "wait" ELSE sp
    /\ rp' = IF rp = "done" THEN "wait" ELSE rp
    /\ elapsed' = 0
    /\ grace' = 0
    /\ pending' = NoOutcome
    /\ outcome' = NoOutcome
    /\ timedOut' = "no"
    /\ UNCHANGED <<args, logged, cancels, cancelledAt, forwarded>>
    /\ UNCHANGED <<creq, cpos, cresult, cbCalls, entered>>
    /\ UNCHANGED <<limVars, activeJobs, terminals, completed>>

\* The tool call ended: the converter's handlers (video.py lines 138-156), the
\* end of the async with block, the completion of progress tracking (lines
\* 158-164), and the way back through the router and convert_file.
ToolReturn ==
    /\ cpos = "tool"
    /\ sp = "done" \/ rp = "done"
    /\ LET x == converter_result(creq.route, outcome)
           heard == cbCalls \o forwarded
       IN  IF starts_again(x)
           THEN Respawn
           ELSE /\ LeavesSlot(IF x.kind = "path" THEN "success"
                               ELSE IF x.kind = "CancelledError"
                                    THEN "cancelled" ELSE "exception")
                /\ cpos' = "done"
                /\ UNCHANGED <<creq, spawns, entered>>
                /\ UNCHANGED <<procVars, callVars>>
                /\ IF creq.progress = "both"
                   THEN /\ cbCalls' = heard
                        /\ cresult' = delivered(creq, x)
                        /\ IF x.kind \in {"path", "ConversionError"}
                           THEN complete_job(ReqJob, x.kind = "path",
                                             "Halfway", NoMeta)
                           ELSE NotFound
                   ELSE /\ NotFound
                        /\ IF creq.progress = "callback" /\ x.kind = "path"
                           THEN /\ cbCalls' = Append(heard, 100)
                                /\ cresult' = IF "final" \in creq.cb_raises
                                              THEN CallbackError
                                              ELSE delivered(creq, x)
                           ELSE /\ cbCalls' = heard
                                /\ cresult' = delivered(creq, x)
    /\ UNCHANGED <<now, repConfig, lastCall, lockVars>>
    /\ UNCHANGED <<convVars, queueVars, sideVars>>

\* image.py lines 101-110: the library call in the executor ends, with the
\* converted file or with an exception of the library
LibraryDone ==
    /\ cpos = "library"
    /\ \E ok \in BOOLEAN :
          LET x == IF ok THEN Success ELSE LibraryError
          IN  /\ LeavesSlot(IF ok THEN "success" ELSE "exception")
              /\ cresult' = delivered(creq, x)
    /\ cpos' = "done"
    /\ UNCHANGED <<creq, cbCalls, spawns, entered>>
    /\ UNCHANGED <<convVars, queueVars, sideVars, procVars, callVars, repVars>>

RequestIdle ==
    /\ creq = NoRequest
    /\ cpos = "idle"
    /\ cresult = NoOutcome
    /\ cbCalls = <<>>
    /\ spawns = 0
    /\ entered = 0

NextConvert ==
    \/ InitiateShutdown
    \/ ConvertFileCall
    \/ ConverterCall
    \/ ProcExit
    \/ ChildWatcher
    \/ TransportClosed
    \/ RunnerTick
    \/ RunnerWaitDone
    \/ RunnerTimeout
    \/ GraceTick
    \/ RunnerReaped
    \/ RunnerGraceExpired
    \/ RunnerFinalWaitDone
    \/ RunnerCancel
    \/ StreamTick
    \/ StreamDonePlain
    \/ StreamDoneReporting
    \/ StreamTimeout
    \/ StreamInnerWaitDone
    \/ StreamCancel
    \/ ToolReturn
    \/ LibraryDone

\* C26 (as claimed): when the external tool exited with a non-zero code or
\* timed out, the convert operation of the video, audio and ebook converters
\* fails with ConversionError; SubprocessError and SubprocessTimeoutError never
\* reach the converter's caller.
ToolFailed ==
    \/ timedOut # "no"
    \/ proc \in {"zombie", "reaped", "closed"} /\ exitCode # 0
C26_Rewrapped ==
    (/\ cpos = "done"
     /\ creq.entry = "convert"
     /\ creq.route \in {"video", "audio", "ebook"}
     /\ spawns = 1
     /\ cancels = 0
     /\ ToolFailed
     /\ cresult.kind # "CallbackError")
        => cresult.kind = "ConversionError"

\* C27 (as claimed): a progress callback that raises, at the initial 0, at a
\* parsed percentage or at the final 100, never changes how the video
\* conversion ends: the tool runs and the conversion ends as the end of the
\* tool call alone decides.
C27_CallbackFailureSwallowed ==
    (/\ cpos = "done"
     /\ creq.progress = "callback"
     /\ creq.cb_raises # {})
        => /\ spawns = 1
           /\ cresult = converter_result(creq.route, outcome)

\* C28 (as claimed): after a successful video conversion that was given a
\* progress callback, the callback was invoked at least once, every value it
\* was given lies in 0..100, and the last one is 100.
C28_CallbackHears100 ==
    (/\ cpos = "done"
     /\ creq.progress \in {"callback", "both"}
     /\ cresult.kind = "path")
        => /\ cbCalls # <<>>
           /\ \A i \in 1..Len(cbCalls) : cbCalls[i] \in 0..100
           /\ cbCalls[Len(cbCalls)] = 100

\* C34 (as claimed): when VideoConverter.convert was given a reporter and a
\* job id, the job it started is completed on every way out of convert: once
\* convert has returned or raised, the id is not in the reporter's table.
C34_StartMatchedByComplete ==
    (cpos = "done" /\ creq.progress = "both") =>
        /\ ReqJob \notin DOMAIN activeJobs
        /\ ReqJob \in completed

C36_Step ==
    /\ shutdown => shutdown'
    /\ (/\ shutdown
        /\ cpos = "idle" /\ cpos' # "idle"
        /\ creq'.entry = "convert_file") =>
            /\ cpos' = "done"
            /\ cresult' = ErrorAnswer("shutting down")
            /\ UNCHANGED <<resolved, spawns, entered, limVars, procVars>>

\* C36: once shutdown was initiated is_shutting_down stays true, however
\* often initiate_shutdown is called again, and a convert_file call made from
\* then on returns the error answer at once: it resolves no output path,
\* takes no limiter slot, calls no converter and spawns no process.
C36_ShutdownSticks == [][C36_Step]_vars

\* C36 witness: after shutdown was initiated a convert_file call for an
\* existing source with a valid quality was refused.
C36_Witness ==
    /\ shutdown
    /\ cpos = "done"
    /\ creq.entry = "convert_file" /\ creq.shutting
    /\ creq.source_ok /\ creq.quality \in valid_qualities
    /\ creq.route = "video"
    /\ cresult = ErrorAnswer("shutting down")
    /\ resolved = NotResolved /\ spawns = 0 /\ semValue = Capacity

InvalidQualityAnswered ==
    /\ cpos = "done"
    /\ creq.entry = "convert_file"
    /\ creq.quality \notin {"low", "medium", "high"}

NothingStarted ==
    /\ spawns = 0
    /\ entered = 0
    /\ proc = "none"
    /\ semValue = Capacity
    /\ lpc[ReqTask] = "idle"

C30_Step ==
    /\ spawns' <= 1
    /\ entered' <= 1
    /\ cpos' = "done" => cresult' # NoOutcome
    /\ cresult # NoOutcome => (cresult' = cresult /\ spawns' = spawns)
    /\ (spawns = 1 /\ proc # "running") => proc' # "running"

\* C30: no step retries: a request spawns at most one process and enters at
\* most one converter, a process that ended or was killed is never started
\* again, and the answer, given once when the request ends, never changes and
\* is followed by no spawn.
C30_NoRetry == [][C30_Step]_vars

C30_Witness ==
    /\ cpos = "done"
    /\ creq.entry = "convert_file"
    /\ spawns = 1
    /\ ToolFailed
    /\ cancels = 0
    /\ cresult.kind = "answer"
    /\ cresult.status = "error"

\* C35: when every conversion that holds a slot finishes and every task that
\* was handed a slot is resumed, a task waiting in acquire enters the guarded
\* section (or leaves acquire because it was cancelled there): no waiter is
\* left behind, whatever the other tasks do.
C35_WaiterEnters ==
    \A t \in Tasks :
        (lpc[t] = "waiting") ~>
            (lpc[t] = "inside" \/ lexit[t] = "cancelledInAcquire")

\* C35 witness: all slots are held, one waiter has been handed a slot by a
\* release and another still waits behind it.
C35_Witness ==
    \E t, u \in Tasks :
        /\ lpc[t] = "waiting" /\ fut[t] = "done"
        /\ lpc[u] = "waiting" /\ fut[u] = "pending"
        /\ semValue = 0

(***************************************************************************)
(* A task inside `async with ProgressTracker(reporter, job_id)`            *)
(* (progress.py lines 285-372).                                            *)
(***************************************************************************)
TrackerJob == "job-1"
\* ProgressTracker.__init__, line 297: message = "Processing"
TrackerMessage == "Processing"

exit_success_always(exc) == TRUE

\* ProgressTracker.__aexit__, lines 328-339: success is passed as False when
\* an exception leaves the block (exc_type is not None)
exit_success(exc) == ~exc

\* line 338: the message of the completion
exit_message(exc) == IF exc THEN "Failed" ELSE "Processing complete"

\* __aexit__ returns None: the exception of the block is not suppressed
aexit_suppresses == FALSE

TrackerFrame ==
    /\ UNCHANGED <<routed, files, resolved, shutdown>>
    /\ UNCHANGED <<now, repConfig, lockVars>>
    /\ UNCHANGED <<limVars, convVars, queueVars, reqVars, procVars, callVars>>

\* ProgressTracker.__aenter__, lines 315-322
TrackerEnter ==
    /\ tpc = "idle"
    /\ start_job(TrackerJob, TrackerMessage, NoMeta)
    /\ lastCall' = Observed("start_job", TrackerJob, NoProgress,
                            start_info(TrackerMessage, NoMeta))
    /\ tpc' = "body"
    /\ UNCHANGED texc
    /\ TrackerFrame

\* ProgressTracker.advance / set_progress, lines 341-372, called in the block
TrackerAdvance ==
    /\ tpc = "body"
    /\ \E p \in ProgressValues :
          /\ update_progress(TrackerJob, p, "processing", TrackerMessage, NoMeta)
          /\ lastCall' = Observed("update_progress", TrackerJob, p,
                 Lookup(TrackerJob, LAMBDA old :
                     update_info(old, p, "processing", TrackerMessage, NoMeta)))
    /\ UNCHANGED <<tpc, texc>>
    /\ TrackerFrame

\* The block is left, by its end or by an exception: ProgressTracker.__aexit__,
\* lines 324-339.
TrackerExit ==
    /\ tpc = "body"
    /\ \E exc \in BOOLEAN :
          /\ complete_job(TrackerJob, exit_success(exc), exit_message(exc), NoMeta)
          /\ lastCall' = Observed("complete_job", TrackerJob, NoProgress,
                 Lookup(TrackerJob, LAMBDA old :
                     complete_info(old, exit_success(exc), exit_message(exc),
                                   NoMeta)))
          /\ texc' = exc
          /\ tpc' = IF exc /\ ~aexit_suppresses THEN "raised" ELSE "left"
    /\ TrackerFrame

NextTracker ==
    \/ TrackerEnter
    \/ TrackerAdvance
    \/ TrackerExit
    \/ ClockTick

C33_Left ==
    tpc \in {"left", "raised"} =>
        /\ TrackerJob \notin DOMAIN activeJobs
        /\ lastCall.op = "complete_job" /\ lastCall.found
        /\ lastCall.ret \notin {None, Raised}
        /\ lastCall.ret.stage = IF texc THEN "error" ELSE "complete"
        /\ texc <=> tpc = "raised"

C33_EnterStep ==
    (tpc = "idle" /\ tpc' = "body") =>
        /\ TrackerJob \in DOMAIN activeJobs'
        /\ activeJobs'[TrackerJob].stage = "init"
        /\ activeJobs'[TrackerJob].progress = 0

\* C33: entering a ProgressTracker block starts the job in stage init; leaving
\* it without an exception completes the job with stage complete, leaving it
\* by an exception completes it with stage error and the exception goes on;
\* either way the job is gone from the reporter's table afterwards.
C33_TrackerPairs == []C33_Left /\ [][C33_EnterStep]_vars

\* C33 witness: the block was left by an exception while a sink of the
\* reporter raises; the job was completed with stage error.
C33_Witness ==
    /\ tpc = "raised" /\ texc
    /\ raising # {}
    /\ lastCall.op = "complete_job"
    /\ lastCall.ret \notin {None, Raised}
    /\ lastCall.ret.stage = "error"
    /\ TrackerJob \in completed

SideIdle ==
    /\ routed = NotRouted
    /\ files = [d \in Dirs |-> {}]
    /\ resolved = NotResolved
    /\ tpc = "idle"
    /\ texc = FALSE
    /\ shutdown = FALSE

(***************************************************************************)
(* The specifications.                                                     *)
(***************************************************************************)
Init ==
    /\ LimiterIdle /\ ConversionsIdle /\ QueueIdle /\ RequestIdle /\ SideIdle /\ CallIdle
    /\ ReporterIdle /\ CallersIdle
    /\ sinks = {} /\ raising = {} /\ callers = JobIds

InitReporter ==
    /\ LimiterIdle /\ ConversionsIdle /\ QueueIdle /\ RequestIdle /\ SideIdle /\ CallIdle
    /\ ReporterIdle /\ CallersIdle
    /\ sinks \in SinkConfigs /\ raising = {} /\ callers = JobIds

\* one caller's job, under every configuration of sinks, raising ones included
InitCalls ==
    /\ LimiterIdle /\ ConversionsIdle /\ QueueIdle /\ RequestIdle /\ SideIdle /\ CallIdle
    /\ ReporterIdle /\ CallersIdle
    /\ sinks \in SinkConfigs /\ raising \in SUBSET sinks /\ callers = {"job-1"}

\* the callers of two jobs, no sink configured
InitPair ==
    /\ LimiterIdle /\ ConversionsIdle /\ QueueIdle /\ RequestIdle /\ SideIdle /\ CallIdle
    /\ ReporterIdle /\ CallersIdle
    /\ sinks = {} /\ raising = {} /\ callers = JobIds

\* the callers of one job, with a callback that returns or one that raises
InitCallers ==
    /\ LimiterIdle /\ ConversionsIdle /\ QueueIdle /\ RequestIdle /\ SideIdle /\ CallIdle
    /\ ReporterIdle /\ CallersIdle
    /\ sinks = {"callback"} /\ raising \in SUBSET sinks
    /\ callers = {"job-1"}

SpecLimiter == Init /\ [][NextLimiter]_vars

SpecRunner == Init /\ [][NextRunner]_vars

SpecStream == Init /\ [][NextStream]_vars

SpecReporter == InitReporter /\ [][NextReporter]_vars

SpecCalls == InitCalls /\ [][NextCalls]_vars

SpecPair == InitPair /\ [][NextCalls]_vars

SpecCallers == InitPair /\ [][NextCallers]_vars

\* a sink that was invoked returns or raises, so a call that runs its body
\* returns, and the event loop resumes a task whose future is done
SpecCallersFair ==
    /\ InitCallers /\ [][NextOneJobCallers]_vars
    /\ \A t \in CallerTasks : WF_vars(CallReturn(t)) /\ WF_vars(CallResume(t))

SpecConversions == Init /\ [][NextConversions]_vars

SpecManual == Init /\ [][NextManual]_vars

SpecQueue == Init /\ [][NextQueue]_vars

\* the event loop runs every task that is ready: a sleeping wait_for_job wakes
SpecQueueFair == Init /\ [][NextWaiting]_vars /\ WF_vars(WaitWake)

SpecConvert == Init /\ [][NextConvert]_vars

\* every holder of a slot leaves the section and the event loop resumes every
\* task whose future is done
SpecLimiterFair ==
    /\ Init /\ [][NextLimiter]_vars
    /\ \A t \in Tasks : WF_vars(ExitSection(t)) /\ WF_vars(AcquireResume(t))

SpecRouter == Init /\ [][NextRouter]_vars

SpecFiles == Init /\ [][NextFiles]_vars

SpecTracker == InitCalls /\ [][NextTracker]_vars

====
